---------------------------- MODULE Spec2Model ----------------------------
(***************************************************************************)
(* A model of the extraction core of TikTokDownloader:                     *)
(*   src/src/extract/extractor.py   (Extractor)                            *)
(*   src/src/custom/function.py     (condition_filter and its counters)    *)
(*                                                                         *)
(* Python objects are tagged pairs <<tag, payload>>:                       *)
(*   <<"none", "">>     None (a JSON null)                                 *)
(*   <<"int", n>>       an int                                             *)
(*   <<"str", s>>       a str                                              *)
(*   <<"list", seq>>    a list                                             *)
(*   <<"dict", f>>      a dict (raw JSON object), f a function on strings  *)
(*   <<"ns", f>>        a types.SimpleNamespace with the attributes f      *)
(*   <<"method", n>>    a bound built-in method (getattr(x, "count"))      *)
(*   <<"tuple", seq>>   a tuple                                            *)
(* An operator that models code which can raise returns either its value   *)
(* or <<"raise", ExceptionName>>.                                          *)
(***************************************************************************)
EXTENDS Integers, Sequences, FiniteSets, TLC

VARIABLES
    pc,         \* position of the operation under way
    tree,       \* safe_extract: the data argument (a converted payload)
    chain,      \* safe_extract: the attribute_chain argument
    dflt,       \* safe_extract: the default argument
    result,     \* what the operation returned, or <<"raise", e>>
    tiktok,     \* the platform flag: FALSE Source-A (Douyin), TRUE Source-B
    variants,   \* quality selection: the media variants of the payload
    errors,     \* number of log.error calls made so far
    works,      \* pipeline: the kinds of the works in the payload list
    mode,       \* pipeline: the type_ argument of run
    rule,       \* the rule condition_filter is customised with
    earliest,   \* batch: first day of the date range
    latest,     \* batch: last day of the date range
    clock,      \* the system clock, in seconds since the epoch
    kwargs,     \* batch: the name, mark and same arguments of run
    api,        \* account: the api argument of deal_account_detail
    info,       \* account: the profile of the account, None without one
    sec_user_id,    \* account: the sec_user_id argument
    tab,        \* account: the tab argument
    mark,       \* account: the mark argument
    triple,     \* account: what preprocessing_data returned
    recorder,   \* account: "none", then "open" and "closed"
    cache,      \* account: the calls of cache.update_cache
    downloaded, \* account: the data given to download_detail_batch
    account_result, \* account: what deal_account_detail returned
    success,    \* count.success of __account_detail_handle
    failed,     \* count.failed of __account_detail_handle
    source,     \* account: the source argument of deal_account_detail
    old_mark,   \* account: old_mark of _batch_process_detail
    link,       \* accounts: the link of the account under way
    link_index, \* accounts: index of the loop, the number of links taken
    accounts,   \* accounts: the number of links of the loop
    store,      \* failed links: the rows of failed_links.xlsx, None without file
    book,       \* failed links: the rows of FailedLogger.sheet, None before
                \* __aenter__
    all_data,   \* container.all_data
    records,    \* the "extracted" lines written by log.info
    saved,      \* the rows passed to recorder.save, in call order
    cursor,     \* __record_data: number of items the loop has passed to save
    pending,    \* the rows of the recorder.save calls that have not completed
    filter_stats \* the counters of src/custom/function.py

vars == <<pc, tree, chain, dflt, result, tiktok, variants, errors, works, mode,
          rule, earliest, latest, clock, kwargs, all_data, records, saved,
          cursor, pending, filter_stats, api, info, sec_user_id, tab, mark,
          triple, recorder, cache, downloaded, account_result, success, failed,
          source, old_mark, link, link_index, accounts, store, book>>

accountVars == <<api, info, sec_user_id, tab, mark, triple, recorder, cache,
                 downloaded, account_result, success, failed, source, old_mark,
                 link, link_index, accounts, store, book>>

resolveVars == <<chain, dflt>>
qualityVars == <<variants>>
pipelineVars == <<works, mode, rule, earliest, latest, clock, kwargs, all_data,
                  records, saved, cursor, pending, filter_stats, accountVars>>

-----------------------------------------------------------------------------
(* Python values *)

None == <<"none", "">>
PyInt(n) == <<"int", n>>
PyStr(s) == <<"str", s>>
PyList(q) == <<"list", q>>
PyDict(f) == <<"dict", f>>
Namespace(f) == <<"ns", f>>
Method(n) == <<"method", n>>
PyTuple(q) == <<"tuple", q>>
Raise(e) == <<"raise", e>>

Tag(v) == v[1]
Val(v) == v[2]
IsRaise(v) == Tag(v) = "raise"

\* an object without attributes or keys: SimpleNamespace(), {}
NoFields == [k \in {} |-> None]

\* bool(v): Python truthiness of the modelled objects
Truthy(v) ==
    CASE Tag(v) = "none" -> FALSE
      [] Tag(v) = "int" -> Val(v) # 0
      [] Tag(v) = "str" -> Val(v) # ""
      [] Tag(v) = "list" -> Val(v) # <<>>
      [] Tag(v) = "dict" -> DOMAIN Val(v) # {}
      [] OTHER -> TRUE

\* a or b
PyOr(a, b) == IF Truthy(a) THEN a ELSE b

-----------------------------------------------------------------------------
(* Extractor.generate_data_object *)

RECURSIVE depth_conversion(_)
depth_conversion(element) ==
    CASE Tag(element) = "dict" ->
            Namespace([k \in DOMAIN Val(element) |-> depth_conversion(Val(element)[k])])
      [] Tag(element) = "list" ->
            PyList([i \in 1..Len(Val(element)) |-> depth_conversion(Val(element)[i])])
      [] OTHER -> element

generate_data_object(data) == depth_conversion(data)

-----------------------------------------------------------------------------
(* str operations used by safe_extract *)

Char(s, i) == SubSeq(s, i, i)

\* sub in s, for a one-character sub
Contains(s, sub) == \E i \in 1..Len(s) : Char(s, i) = sub

\* s.find(sub) + 1: the position of the first sub in s, 0 when there is none
Find(s, sub) ==
    IF Contains(s, sub)
    THEN CHOOSE i \in 1..Len(s) :
            Char(s, i) = sub /\ \A j \in 1..(i - 1) : Char(s, j) # sub
    ELSE 0

\* s.split(sep), the first sep being at position i (0: there is none)
RECURSIVE split(_, _)
split_at(s, sep, i) ==
    IF i = 0 THEN <<s>>
    ELSE <<SubSeq(s, 1, i - 1)>> \o split(SubSeq(s, i + 1, Len(s)), sep)

split(s, sep) == split_at(s, sep, Find(s, sep))

\* s.split(sep, 1), the first sep being at position i (0: there is none)
split1_at(s, i) ==
    IF i = 0 THEN <<s>>
    ELSE <<SubSeq(s, 1, i - 1), SubSeq(s, i + 1, Len(s))>>

split1(s, sep) == split1_at(s, Find(s, sep))

Digits == {"0", "1", "2", "3", "4", "5", "6", "7", "8", "9"}

DigitValue(c) ==
    CASE c = "0" -> 0 [] c = "1" -> 1 [] c = "2" -> 2 [] c = "3" -> 3
      [] c = "4" -> 4 [] c = "5" -> 5 [] c = "6" -> 6 [] c = "7" -> 7
      [] c = "8" -> 8 [] c = "9" -> 9

\* s.strip() for blanks
RECURSIVE strip(_)
strip(s) ==
    IF s = "" THEN s
    ELSE IF Char(s, 1) = " " THEN strip(SubSeq(s, 2, Len(s)))
    ELSE IF Char(s, Len(s)) = " " THEN strip(SubSeq(s, 1, Len(s) - 1))
    ELSE s

RECURSIVE digits_value(_, _)
digits_value(s, acc) ==
    IF s = "" THEN acc
    ELSE digits_value(SubSeq(s, 2, Len(s)), 10 * acc + DigitValue(Char(s, 1)))

\* int of decimal digits without a sign
unsigned(body) ==
    IF body = "" \/ \E i \in 1..Len(body) : Char(body, i) \notin Digits
    THEN Raise("ValueError")
    ELSE PyInt(digits_value(body, 0))

negated(v) == IF IsRaise(v) THEN v ELSE PyInt(0 - Val(v))

\* int of a text without blanks around it
signed(t) ==
    IF t = "" THEN Raise("ValueError")
    ELSE IF Char(t, 1) = "-" THEN negated(unsigned(SubSeq(t, 2, Len(t))))
    ELSE IF Char(t, 1) = "+" THEN unsigned(SubSeq(t, 2, Len(t)))
    ELSE unsigned(t)

\* int(s): an optional sign and decimal digits, blanks around them ignored;
\* ValueError otherwise (digit-group underscores are outside the modelled
\* alphabet)
int(s) == signed(strip(s))

-----------------------------------------------------------------------------
(* Attribute access and subscription in the Python object model *)

\* getattr(data, attribute, None).  Besides the attributes of a namespace
\* every object has its type's own ones; of those, the names the modelled
\* paths can spell are __dict__ (the attribute dict of a SimpleNamespace),
\* count (a method of list and str) and real (an int is its own real part).
getattr(data, attribute) ==
    CASE Tag(data) = "ns" ->
            IF attribute \in DOMAIN Val(data) THEN Val(data)[attribute]
            ELSE IF attribute = "__dict__" THEN PyDict(Val(data))
            ELSE None
      [] Tag(data) \in {"list", "str"} ->
            IF attribute = "count" THEN Method("count") ELSE None
      [] Tag(data) = "int" ->
            IF attribute = "real" THEN data ELSE None
      [] OTHER -> None

\* data.attribute: AttributeError where getattr would use its default
attr(data, attribute) ==
    IF Tag(data) = "ns" /\ attribute \in DOMAIN Val(data)
    THEN Val(data)[attribute]
    ELSE Raise("AttributeError")

\* obj[index] for an int index
subscript(obj, index) ==
    CASE Tag(obj) \in {"list", "str"} ->
            LET n == Len(Val(obj))
                i == IF index < 0 THEN index + n ELSE index
            IN  IF i < 0 \/ i >= n THEN Raise("IndexError")
                ELSE IF Tag(obj) = "list" THEN Val(obj)[i + 1]
                ELSE PyStr(Char(Val(obj), i + 1))
      [] Tag(obj) = "dict" -> Raise("KeyError")  \* the keys are strings
      [] OTHER -> Raise("TypeError")

-----------------------------------------------------------------------------
(* Extractor.safe_extract *)

RECURSIVE extract_loop(_, _, _, _)

\* getattr(data, attribute, None)[index] with index = int(text)
item_at(obj, index) ==
    IF IsRaise(index) THEN index ELSE subscript(obj, Val(index))

\* the segment name[index]..., split at its first "[" into parts
indexed(data, parts) ==
    item_at(getattr(data, parts[1]), int(split1(parts[2], "]")[1]))

\* after the try block: except (IndexError, TypeError, ValueError) returns
\* the default, any other exception leaves safe_extract
after_index(item, attributes, k, default) ==
    IF IsRaise(item)
    THEN IF Val(item) \in {"IndexError", "TypeError", "ValueError"}
         THEN default
         ELSE item
    ELSE extract_loop(item, attributes, k + 1, default)

\* if not data: return default
after_attribute(item, attributes, k, default) ==
    IF ~Truthy(item) THEN default
    ELSE extract_loop(item, attributes, k + 1, default)

\* for attribute in attributes: ...; return data or default
extract_loop(data, attributes, k, default) ==
    IF k > Len(attributes) THEN PyOr(data, default)
    ELSE IF Contains(attributes[k], "[")
    THEN after_index(indexed(data, split1(attributes[k], "[")), attributes, k,
                     default)
    ELSE after_attribute(getattr(data, attributes[k]), attributes, k, default)

safe_extract(data, attribute_chain, default) ==
    extract_loop(data, split(attribute_chain, "."), 1, default)

-----------------------------------------------------------------------------
(* Quality selection: Extractor.__extract_video_download and
   Extractor.__extract_video_download_tiktok *)

\* src/custom/static.py is not part of the sources at hand; the design calls
\* this index "a fixed configuration constant (not necessarily the last)"
VIDEO_TIKTOK_INDEX == 0

MinusOne == PyInt(0 - 1)

\* (-1, -1, "")
Sentinel == PyTuple(<<MinusOne, MinusOne, PyStr("")>>)

Front(q) == SubSeq(q, 1, Len(q) - 1)
Last(q) == q[Len(q)]

\* for i in v: a list yields its elements, a str its characters; iterating
\* anything else raises TypeError
Iterable(v) == Tag(v) \in {"list", "str"}
Elements(v) ==
    IF Tag(v) = "list" THEN Val(v)
    ELSE [i \in 1..Len(Val(v)) |-> PyStr(Char(Val(v), i))]

HasRaise(q) == \E i \in 1..Len(q) : IsRaise(q[i])

\* max(a, b) on the numbers of a payload, which are ints or null: comparing
\* with None raises TypeError
pymax(a, b) ==
    IF Tag(a) = "int" /\ Tag(b) = "int"
    THEN IF Val(b) > Val(a) THEN b ELSE a
    ELSE Raise("TypeError")

\* x < y on tuples of ints
RECURSIVE tuple_lt(_, _, _)
tuple_lt(x, y, k) ==
    IF k > Len(x) \/ k > Len(y) THEN Len(x) < Len(y)
    ELSE IF x[k] = y[k] THEN tuple_lt(x, y, k + 1)
    ELSE Val(x[k]) < Val(y[k])

\* list.sort(key=...) on <<key, item>> pairs: ascending and stable
RECURSIVE insert_sorted(_, _)
insert_sorted(sorted, pair) ==
    IF sorted = <<>> THEN <<pair>>
    ELSE IF tuple_lt(pair[1], Last(sorted)[1], 1)
         THEN Append(insert_sorted(Front(sorted), pair), Last(sorted))
         ELSE Append(sorted, pair)

RECURSIVE sort(_)
sort(pairs) ==
    IF pairs = <<>> THEN <<>>
    ELSE insert_sorted(sort(Front(pairs)), Last(pairs))

\* (i.FPS, i.bit_rate, i.play_addr.data_size, i.play_addr.height,
\*  i.play_addr.width, i.play_addr.url_list)
bit_rate_tuple(i) ==
    <<attr(i, "FPS"),
      attr(i, "bit_rate"),
      attr(attr(i, "play_addr"), "data_size"),
      attr(attr(i, "play_addr"), "height"),
      attr(attr(i, "play_addr"), "width"),
      attr(attr(i, "play_addr"), "url_list")>>

\* the bit rate ordered before the frame rate
bit_rate_key_swapped(x) == <<pymax(x[4], x[5]), x[2], x[1], x[3]>>

\* key=lambda x: (max(x[3], x[4]), x[0], x[1], x[2])
bit_rate_key(x) == <<pymax(x[4], x[5]), x[1], x[2], x[3]>>

\* (i.Bitrate, i.PlayAddr.DataSize, i.PlayAddr.Height, i.PlayAddr.Width,
\*  i.PlayAddr.UrlList)
bitrate_info_tuple(i) ==
    <<attr(i, "Bitrate"),
      attr(attr(i, "PlayAddr"), "DataSize"),
      attr(attr(i, "PlayAddr"), "Height"),
      attr(attr(i, "PlayAddr"), "Width"),
      attr(attr(i, "PlayAddr"), "UrlList")>>

\* the data size ordered before the bit rate
bitrate_info_key_swapped(x) == <<pymax(x[3], x[4]), x[2], x[1]>>

\* key=lambda x: (max(x[2], x[3]), x[0], x[1])
bitrate_info_key(x) == <<pymax(x[3], x[4]), x[1], x[2]>>

\* the first URL candidate where the code takes the last
degrade_first_url(first) ==
    PyTuple(<<safe_extract(first, "play_addr.height", MinusOne),
              safe_extract(first, "play_addr.width", MinusOne),
              safe_extract(first, "play_addr.url_list[0]", PyStr(""))>>)

\* the except AttributeError branch of __extract_video_download
degrade(first) ==
    PyTuple(<<safe_extract(first, "play_addr.height", MinusOne),
              safe_extract(first, "play_addr.width", MinusOne),
              safe_extract(first, "play_addr.url_list[-1]", PyStr(""))>>)

\* the except AttributeError branch of __extract_video_download_tiktok
degrade_tiktok(first) ==
    PyTuple(<<safe_extract(first, "PlayAddr.Height", MinusOne),
              safe_extract(first, "PlayAddr.Width", MinusOne),
              safe_extract(first,
                  "PlayAddr.UrlList[" \o ToString(VIDEO_TIKTOK_INDEX) \o "]",
                  PyStr(""))>>)

\* bit_rate[-1] with the URL taken from its candidates
best_of(height, width, url) ==
    IF IsRaise(url) THEN url ELSE PyTuple(<<height, width, url>>)

\* the width read from the first element of the sorted list
select_best_mixed(bit_rate) ==
    IF bit_rate = <<>> THEN Sentinel
    ELSE best_of(Last(bit_rate)[4], bit_rate[1][5],
                 subscript(Last(bit_rate)[6], 0 - 1))

\* (bit_rate[-1][-3], bit_rate[-1][-2], bit_rate[-1][-1][-1])
\*     if bit_rate else (-1, -1, "")
select_best(bit_rate) ==
    IF bit_rate = <<>> THEN Sentinel
    ELSE best_of(Last(bit_rate)[4], Last(bit_rate)[5],
                 subscript(Last(bit_rate)[6], 0 - 1))

\* (bitrate_info[-1][-3], bitrate_info[-1][-2],
\*  bitrate_info[-1][-1][VIDEO_TIKTOK_INDEX]) if bitrate_info else (-1, -1, "")
select_best_tiktok(bitrate_info) ==
    IF bitrate_info = <<>> THEN Sentinel
    ELSE best_of(Last(bitrate_info)[3], Last(bitrate_info)[4],
                 subscript(Last(bitrate_info)[5], VIDEO_TIKTOK_INDEX))

\* building the tuples of the variants raw raises AttributeError
tuples_raise(raw) ==
    \E i \in 1..Len(raw) : HasRaise(bit_rate_tuple(raw[i]))

tuples_raise_tiktok(raw) ==
    \E i \in 1..Len(raw) : HasRaise(bitrate_info_tuple(raw[i]))

\* TRUE when the variant list takes the degrade path
degrades(bit_rate) == Iterable(bit_rate) /\ tuples_raise(Elements(bit_rate))

degrades_tiktok(bitrate_info) ==
    Iterable(bitrate_info) /\ tuples_raise_tiktok(Elements(bitrate_info))

parse_failed(data) ==
    degrades(safe_extract(data, "video.bit_rate", PyList(<<>>)))

parse_failed_tiktok(data) ==
    degrades_tiktok(safe_extract(data, "video.bitrateInfo", PyList(<<>>)))

\* the elements of the sorted <<key, item>> pairs
sorted_items(pairs) == [i \in 1..Len(pairs) |-> pairs[i][2]]

\* bit_rate.sort(key=...) and the selection: a key that cannot be computed
\* or compared raises TypeError
sort_and_select(tuples) ==
    IF \E i \in 1..Len(tuples) : HasRaise(bit_rate_key(tuples[i]))
    THEN Raise("TypeError")
    ELSE select_best(sorted_items(sort(
            [i \in 1..Len(tuples) |-> <<bit_rate_key(tuples[i]), tuples[i]>>])))

sort_and_select_tiktok(tuples) ==
    IF \E i \in 1..Len(tuples) : HasRaise(bitrate_info_key(tuples[i]))
    THEN Raise("TypeError")
    ELSE select_best_tiktok(sorted_items(sort(
            [i \in 1..Len(tuples) |-> <<bitrate_info_key(tuples[i]), tuples[i]>>])))

\* the try block over the variants raw and what follows it
select_variant(raw) ==
    IF tuples_raise(raw) THEN degrade(raw[1])
    ELSE sort_and_select([i \in 1..Len(raw) |-> bit_rate_tuple(raw[i])])

select_variant_tiktok(raw) ==
    IF tuples_raise_tiktok(raw) THEN degrade_tiktok(raw[1])
    ELSE sort_and_select_tiktok([i \in 1..Len(raw) |-> bitrate_info_tuple(raw[i])])

\* for i in bit_rate
download_of(bit_rate) ==
    IF ~Iterable(bit_rate) THEN Raise("TypeError")
    ELSE select_variant(Elements(bit_rate))

download_of_tiktok(bitrate_info) ==
    IF ~Iterable(bitrate_info) THEN Raise("TypeError")
    ELSE select_variant_tiktok(Elements(bitrate_info))

extract_video_download(data) ==
    download_of(safe_extract(data, "video.bit_rate", PyList(<<>>)))

extract_video_download_tiktok(data) ==
    download_of_tiktok(safe_extract(data, "video.bitrateInfo", PyList(<<>>)))

-----------------------------------------------------------------------------
(* Per-item extraction: the fields id, create_timestamp, create_time, type,
   height, width and downloads of Extractor.__extract_batch and
   Extractor.__extract_batch_tiktok *)

\* defined in src/custom/static.py, which is not part of the sources at hand
IMAGE_TIKTOK_INDEX == 0 - 1

\* the values of _("视频"), _("图集") and _("实况")
TypeVideo == PyStr("video")
TypeImage == PyStr("image")
TypeLive == PyStr("live")

SecondsPerDay == 86400

\* the first exception raised while the elements of q are computed in order
FirstRaise(q) ==
    q[CHOOSE i \in 1..Len(q) : IsRaise(q[i]) /\ \A j \in 1..(i - 1) : ~IsRaise(q[j])]

\* dict.get(key)
get(d, key) == IF key \in DOMAIN Val(d) THEN Val(d)[key] ELSE None

\* strftime(date_format, localtime(t)): the day since the epoch and the
\* time of day (the local zone is taken to be UTC)
strftime(t) ==
    ToString(t \div SecondsPerDay) \o " " \o ToString((t % SecondsPerDay) \div 3600)
        \o ":" \o ToString((t % 3600) \div 60) \o ":" \o ToString(t % 60)

\* Extractor.__format_date: localtime(None) is the current time
format_date(data, now) ==
    IF ~Truthy(data) THEN PyStr(strftime(now))
    ELSE IF Tag(data) = "int" THEN PyStr(strftime(Val(data)))
    ELSE Raise("TypeError")

\* item["height"], item["width"], item["downloads"] = t
video_info(t) ==
    IF IsRaise(t) THEN t
    ELSE PyDict([type |-> TypeVideo, height |-> Val(t)[1], width |-> Val(t)[2],
                 downloads |-> Val(t)[3]])

\* Extractor.__extract_video_info
extract_video_info(data) == video_info(extract_video_download(data))

\* Extractor.__extract_video_info_tiktok
extract_video_info_tiktok(data) == video_info(extract_video_download_tiktok(data))

\* t[-1]
last_of(t) == IF IsRaise(t) THEN t ELSE Val(t)[3]

\* Extractor.__classify_slides_item
classify_slides_item(item) ==
    IF Truthy(safe_extract(item, "video", PyStr("")))
    THEN last_of(extract_video_download(item))
    ELSE safe_extract(item, "url_list[-1]", PyStr(""))

\* Extractor.__set_blank_data with the downloads of the caller
blank_data(type_, downloads) ==
    IF HasRaise(downloads) THEN FirstRaise(downloads)
    ELSE PyDict([type |-> type_, height |-> MinusOne, width |-> MinusOne,
                 downloads |-> PyList(downloads)])

\* only the first image is inspected
any_video_first(images) ==
    images # <<>> /\ Truthy(safe_extract(images[1], "video", PyStr("")))

\* any(self.safe_extract(i, "video") for i in images)
any_video(images) ==
    \E k \in 1..Len(images) : Truthy(safe_extract(images[k], "video", PyStr("")))

\* the two branches of __extract_image_info over the elements of images
image_info(images) ==
    IF any_video(images)
    THEN blank_data(TypeLive,
            [k \in 1..Len(images) |-> classify_slides_item(images[k])])
    ELSE blank_data(TypeImage,
            [k \in 1..Len(images) |->
                safe_extract(images[k], "url_list[-1]", PyStr(""))])

\* Extractor.__extract_image_info
extract_image_info(data, images) ==
    IF ~Iterable(images) THEN Raise("TypeError")
    ELSE image_info(Elements(images))

image_info_tiktok(images) ==
    blank_data(TypeImage,
        [k \in 1..Len(images) |->
            safe_extract(images[k],
                "imageURL.urlList[" \o ToString(IMAGE_TIKTOK_INDEX) \o "]",
                PyStr(""))])

\* Extractor.__extract_image_info_tiktok
extract_image_info_tiktok(data, images) ==
    IF ~Iterable(images) THEN Raise("TypeError")
    ELSE image_info_tiktok(Elements(images))

\* if images := ...: ... else: ...
classify(data, images) ==
    IF Truthy(images) THEN extract_image_info(data, images)
    ELSE extract_video_info(data)

classify_tiktok(data, images) ==
    IF Truthy(images) THEN extract_image_info_tiktok(data, images)
    ELSE extract_video_info_tiktok(data)

\* Extractor.__classifying_detail
classifying_detail(data) ==
    classify(data, safe_extract(data, "images", PyStr("")))

\* Extractor.__classifying_detail_tiktok
classifying_detail_tiktok(data) ==
    classify_tiktok(data, safe_extract(data, "imagePost.images", PyStr("")))

\* the fields of an item, or the exception raised first
item_of(id, timestamp, time, media) ==
    IF IsRaise(time) THEN time
    ELSE IF IsRaise(media) THEN media
    ELSE PyDict([id |-> id, create_timestamp |-> timestamp, create_time |-> time]
                    @@ Val(media))

\* item["create_time"] = self.__format_date(item["create_timestamp"])
detail_info(id, timestamp, now, media) ==
    item_of(id, timestamp, format_date(timestamp, now), media)

\* the characters Cleaner.filter removes from a name
Illegal == {"/", ":"}

\* Cleaner.filter(text)
RECURSIVE filter(_)
filter(text) ==
    IF text = "" THEN ""
    ELSE (IF Char(text, 1) \in Illegal THEN "" ELSE Char(text, 1))
            \o filter(SubSeq(text, 2, Len(text)))

\* Cleaner.filter_name(text, default): the cleaned text, default when
\* nothing is left of it
filter_name(text, default) == PyOr(PyStr(filter(Val(text))), default)

\* _("已注销账号") and _("无效账号昵称")
DeletedAccount == PyStr("deleted account")
InvalidNickname == PyStr("invalid nickname")

\* the container of __batch holds the keyword arguments; that of __detail
\* has same = False and no name or mark
container_of(type_, kw) ==
    IF type_ = "batch" THEN kw ELSE [kw EXCEPT !.same = FALSE]

\* container.cache["nickname"] = name; container.cache["mark"] = name
named(name) == [nickname |-> name, mark |-> name]

\* the else branch of __extract_nickname_info
own_nickname(data) ==
    named(filter_name(safe_extract(data, "nickname", DeletedAccount),
                      InvalidNickname))

\* container.same is not consulted
nickname_info_own(container, data) == own_nickname(data)

\* Extractor.__extract_nickname_info
nickname_info(container, data) ==
    IF container.same
    THEN [nickname |-> PyStr(container.name),
          mark |-> PyOr(PyStr(container.mark), PyStr(container.name))]
    ELSE own_nickname(data)

\* Extractor.__extract_account_info and __extract_account_info_tiktok: the
\* nickname and mark of the item
account_info(container, data) ==
    nickname_info(container, safe_extract(data, "author", PyStr("")))

\* container.cache with more fields of the item
with_account(item, account) ==
    IF IsRaise(item) THEN item ELSE PyDict(Val(item) @@ account)

\* Cleaner.clear_spaces(text): no blank at either end, one blank where
\* there were several
RECURSIVE single_spaced(_)
single_spaced(text) ==
    IF Len(text) < 2 THEN text
    ELSE IF Char(text, 1) = " " /\ Char(text, 2) = " "
    THEN single_spaced(SubSeq(text, 2, Len(text)))
    ELSE Char(text, 1) \o single_spaced(SubSeq(text, 2, Len(text)))

clear_spaces(text) == single_spaced(strip(text))

\* Extractor.__clean_description
clean_description(desc) == PyStr(clear_spaces(filter(Val(desc))))

\* the cleaned description is kept as it is
desc_or_id_never(desc, id) == desc

\* self.__clean_description(...) or item["id"]
desc_or_id(desc, id) == PyOr(desc, id)

\* item["desc"] of __extract_detail_info and __extract_detail_info_tiktok
with_desc(item, data) ==
    IF IsRaise(item) THEN item
    ELSE PyDict(Val(item) @@
            [desc |-> desc_or_id(clean_description(safe_extract(data, "desc", PyStr(""))),
                                 get(item, "id"))])

\* Extractor.statistics_keys and Extractor.statistics_keys_tiktok
statistics_keys ==
    <<"digg_count", "comment_count", "collect_count", "share_count", "play_count">>

statistics_keys_tiktok ==
    <<"diggCount", "commentCount", "collectCount", "shareCount", "playCount">>

\* the loop of __extract_statistics and __extract_statistics_tiktok over the
\* keys
statistics_of(data, keys) ==
    [digg_count |-> safe_extract(data, keys[1], MinusOne),
     comment_count |-> safe_extract(data, keys[2], MinusOne),
     collect_count |-> safe_extract(data, keys[3], MinusOne),
     share_count |-> safe_extract(data, keys[4], MinusOne),
     play_count |-> safe_extract(data, keys[5], MinusOne)]

\* Extractor.__extract_statistics
extract_statistics(data) ==
    statistics_of(safe_extract(data, "statistics", PyStr("")), statistics_keys)

\* Extractor.__extract_statistics_tiktok
extract_statistics_tiktok(data) ==
    statistics_of(safe_extract(data, "stats", PyStr("")), statistics_keys_tiktok)

\* container.cache["unique_id"] of __extract_account_info and
\* __extract_account_info_tiktok
unique_id_of(author, t) ==
    [unique_id |-> safe_extract(author, IF t THEN "uniqueId" ELSE "unique_id",
                                PyStr(""))]

\* Extractor.__generate_link
generate_link(type_, id_, unique_id) ==
    CASE Truthy(unique_id) /\ type_ = TypeVideo ->
            PyStr("https://www.tiktok.com/@" \o Val(unique_id) \o "/video/"
                    \o Val(id_))
      [] Truthy(unique_id) /\ type_ = TypeImage ->
            PyStr("https://www.tiktok.com/@" \o Val(unique_id) \o "/photo/"
                    \o Val(id_))
      [] ~Truthy(unique_id) /\ type_ = TypeVideo ->
            PyStr("https://www.douyin.com/video/" \o Val(id_))
      [] ~Truthy(unique_id) /\ type_ \in {TypeImage, TypeLive} ->
            PyStr("https://www.douyin.com/note/" \o Val(id_))
      [] OTHER -> PyStr("")

\* item["share_url"] of Extractor.__extract_additional_info
with_additional_info(item, t) ==
    IF IsRaise(item) THEN item
    ELSE PyDict(Val(item) @@
            [share_url |-> generate_link(get(item, "type"), get(item, "id"),
                                IF t THEN get(item, "unique_id") ELSE None)])

\* Extractor.__extract_batch (through __extract_detail_info)
extract_batch(container, data, now) ==
    with_additional_info(
        with_account(
            with_account(
                with_account(
                    with_desc(detail_info(safe_extract(data, "aweme_id", PyStr("")),
                                          safe_extract(data, "create_time", PyStr("")),
                                          now, classifying_detail(data)),
                              data),
                    unique_id_of(safe_extract(data, "author", PyStr("")), FALSE)),
                account_info(container, data)),
            extract_statistics(data)),
        FALSE)

\* Extractor.__extract_batch_tiktok (through __extract_detail_info_tiktok)
extract_batch_tiktok(container, data, now) ==
    with_additional_info(
        with_account(
            with_account(
                with_account(
                    with_desc(detail_info(safe_extract(data, "id", PyStr("")),
                                          safe_extract(data, "createTime", PyStr("")),
                                          now, classifying_detail_tiktok(data)),
                              data),
                    unique_id_of(safe_extract(data, "author", PyStr("")), TRUE)),
                account_info(container, data)),
            extract_statistics_tiktok(data)),
        TRUE)

\* the log.error calls of the slides images: one for each slide whose
\* variant list takes the degrade path, up to the slide that raises
log_errors_slides(images) ==
    IF ~any_video(images) THEN 0
    ELSE Cardinality({k \in 1..Len(images) :
            /\ Truthy(safe_extract(images[k], "video", PyStr("")))
            /\ parse_failed(images[k])
            /\ \A j \in 1..(k - 1) : ~IsRaise(classify_slides_item(images[j]))})

log_errors_media(data, images) ==
    IF ~Truthy(images) THEN (IF parse_failed(data) THEN 1 ELSE 0)
    ELSE IF ~Iterable(images) THEN 0
    ELSE log_errors_slides(Elements(images))

\* Source-B: only the variant list of a video can take the degrade path
log_errors_tiktok(data) ==
    IF ~Truthy(safe_extract(data, "imagePost.images", PyStr("")))
        /\ parse_failed_tiktok(data)
    THEN 1 ELSE 0

\* the log.error calls made while data is extracted, up to the exception
\* that ends the extraction if there is one: one call for each variant list
\* that takes the degrade path
log_errors(data, t, now) ==
    IF IsRaise(format_date(safe_extract(data,
                    IF t THEN "createTime" ELSE "create_time", PyStr("")), now))
    THEN 0
    ELSE IF t THEN log_errors_tiktok(data)
    ELSE log_errors_media(data, safe_extract(data, "images", PyStr("")))

\* the log.error calls of __platform_classify_detail, which stops at the
\* first item whose extraction raises
RECURSIVE log_count(_, _, _, _)
log_count(data, items, t, now) ==
    IF data = <<>> THEN 0
    ELSE log_errors(generate_data_object(data[1]), t, now)
            + (IF IsRaise(items[1]) THEN 0
               ELSE log_count(Tail(data), Tail(items), t, now))

\* Extractor.__platform_classify_detail: the items of the payloads, each an
\* item or the exception its extraction raises
platform_classify_detail(data, container, t, now) ==
    [k \in 1..Len(data) |->
        IF t
        THEN extract_batch_tiktok(container, generate_data_object(data[k]), now)
        ELSE extract_batch(container, generate_data_object(data[k]), now)]

-----------------------------------------------------------------------------
(* The stages of Extractor.__batch and Extractor.__detail *)

\* every item is kept
clean_extract_data_all(data, key) == data

\* Extractor.__clean_extract_data
clean_extract_data(data, key) ==
    SelectSeq(data, LAMBDA i : Truthy(get(i, key)))

\* datetime.fromtimestamp(t).date(), as the day since the epoch
date_of(t) ==
    IF Tag(t) = "int" THEN PyInt(Val(t) \div SecondsPerDay) ELSE Raise("TypeError")

\* a range without its two ends
in_range_exclusive(date, first, last) == first < Val(date) /\ Val(date) < last

\* earliest <= create_time <= latest
in_range(date, first, last) == first <= Val(date) /\ Val(date) <= last

\* Extractor.__date_filter
date_filter(data, first, last) ==
    IF \E k \in 1..Len(data) : IsRaise(date_of(get(data[k], "create_timestamp")))
    THEN Raise("TypeError")
    ELSE PyList(SelectSeq(data,
            LAMBDA i : in_range(date_of(get(i, "create_timestamp")), first, last)))

\* item.get(key, default)
get_or(d, key, default) == IF key \in DOMAIN Val(d) THEN Val(d)[key] ELSE default

\* an item without the field is dropped like one outside the range
source_keep_dated(create_time, first, last) ==
    Truthy(create_time) /\ in_range(date_of(create_time), first, last)

\* if not (create_time := item.get(key, 0)): keep; else keep when
\* earliest <= datetime.fromtimestamp(create_time).date() <= latest
source_keep(create_time, first, last) ==
    ~Truthy(create_time) \/ in_range(date_of(create_time), first, last)

\* Extractor.__source_date_filter
source_date_filter_key(data, key, first, last) ==
    IF \E k \in 1..Len(data) :
            /\ Truthy(get_or(data[k], key, PyInt(0)))
            /\ IsRaise(date_of(get_or(data[k], key, PyInt(0))))
    THEN Raise("TypeError")
    ELSE PyList(SelectSeq(data,
            LAMBDA i : source_keep(get_or(i, key, PyInt(0)), first, last)))

\* Extractor.source_date_filter
source_date_filter(data, first, last, t) ==
    source_date_filter_key(data, IF t THEN "createTime" ELSE "create_time",
                           first, last)

\* a hook that excludes nothing, whatever the rule
condition_filter_all(data, r) == TRUE

\* condition_filter(data) of src/custom/function.py.  As shipped the rule
\* keeps every work ("all"); the rule "videos" is the commented branch of
\* the function, which excludes image sets and live photos.
condition_filter(data, r) ==
    ~(r = "videos" /\ get(data, "type") \in {TypeImage, TypeLive})

\* a counter update that forgets the works that are kept
counted_excluded(stats, type_, excluded) ==
    [total |-> stats.total + (IF excluded THEN 1 ELSE 0),
     filtered |-> stats.filtered + (IF excluded THEN 1 ELSE 0),
     image |-> stats.image + (IF excluded /\ type_ = TypeImage THEN 1 ELSE 0),
     live |-> stats.live + (IF excluded /\ type_ = TypeLive THEN 1 ELSE 0)]

\* the counters after condition_filter(data), which excludes data or not
counted(stats, type_, excluded) ==
    [total |-> stats.total + 1,
     filtered |-> stats.filtered + (IF excluded THEN 1 ELSE 0),
     image |-> stats.image + (IF excluded /\ type_ = TypeImage THEN 1 ELSE 0),
     live |-> stats.live + (IF excluded /\ type_ = TypeLive THEN 1 ELSE 0)]

count(stats, data, r) ==
    counted(stats, get(data, "type"), ~condition_filter(data, r))

RECURSIVE count_all(_, _, _)
count_all(stats, data, r) ==
    IF data = <<>> THEN stats
    ELSE count_all(count(stats, data[1], r), Tail(data), r)

\* recorder.field_keys, for the fields of the model
FieldKeys == <<"type", "id", "create_time", "height", "width", "downloads">>

\* Extractor.__extract_values
extract_values(data) == [k \in 1..Len(FieldKeys) |-> Val(data)[FieldKeys[k]]]

-----------------------------------------------------------------------------
(* Extractor.preprocessing_data: the id, name and mark of the account whose
   works are processed, from the profile of the account or from the works *)

extract_params ==
    [sec_uid |-> "author.sec_uid", uid |-> "author.uid",
     nickname |-> "author.nickname"]

extract_params_tiktok ==
    [sec_uid |-> "author.secUid", uid |-> "author.id",
     nickname |-> "author.nickname"]

\* data[key]
getitem(data, key) ==
    IF IsRaise(data) THEN data
    ELSE IF Tag(data) # "dict" THEN Raise("TypeError")
    ELSE IF key \in DOMAIN Val(data) THEN Val(data)[key]
    ELSE Raise("KeyError")

\* the dict of get_user_info, {} when a subscript raised KeyError or
\* TypeError
user_info(nickname, sec_uid, uid) ==
    IF IsRaise(nickname) \/ IsRaise(sec_uid) \/ IsRaise(uid)
    THEN PyDict(NoFields)
    ELSE PyDict([nickname |-> nickname, sec_uid |-> sec_uid, uid |-> uid])

\* Extractor.get_user_info
get_user_info(data) ==
    user_info(getitem(data, "nickname"), getitem(data, "sec_uid"),
              getitem(data, "uid"))

\* Extractor.get_user_info_tiktok
get_user_info_tiktok(data) ==
    user_info(getitem(getitem(data, "user"), "nickname"),
              getitem(getitem(data, "user"), "secUid"),
              getitem(getitem(data, "user"), "id"))

\* the tuple id_, name, mark
Triple(id_, name, mark_) == PyTuple(<<id_, name, mark_>>)

\* mark = self.cleaner.filter_name(mark, name)
marked(id_, name, mark_) == Triple(id_, name, filter_name(mark_, name))

\* user_id != (s := info.get("sec_uid"))
differs(user_id, s) == user_id # s

\* the isinstance(data, dict) branch of preprocessing_data, from info on
profile_triple(info_, mark_, user_id) ==
    IF differs(user_id, get(info_, "sec_uid"))
    THEN Triple(PyStr(""), PyStr(""), PyStr(""))
    ELSE marked(get(info_, "uid"),
                filter_name(get(info_, "nickname"), get(info_, "uid")), mark_)

\* the last item of data whose key is id_
RECURSIVE select_item_last(_, _, _)
select_item_last(data, id_, key) ==
    IF data = <<>> THEN Raise("DownloaderError")
    ELSE IF id_ = safe_extract(generate_data_object(Last(data)), key, PyStr(""))
    THEN generate_data_object(Last(data))
    ELSE select_item_last(Front(data), id_, key)

\* Extractor.__select_item
RECURSIVE select_item(_, _, _)
select_item(data, id_, key) ==
    IF data = <<>> THEN Raise("DownloaderError")
    ELSE IF id_ = safe_extract(generate_data_object(data[1]), key, PyStr(""))
    THEN generate_data_object(data[1])
    ELSE select_item(Tail(data), id_, key)

\* return id_, name.strip(), mark.strip()
stripped(id_, name, mark_) ==
    Triple(id_, PyStr(strip(Val(name))), PyStr(strip(Val(mark_))))

\* Extractor.__extract_pretreatment_data from id_ on; no title is passed
pretreatment_named(id_, name, mark_) ==
    stripped(id_, name, filter_name(mark_, name))

pretreatment_data(item, id_, name, mark_) ==
    pretreatment_named(id_, filter_name(safe_extract(item, name, id_), PyStr("")),
                       mark_)

\* Extractor.__extract_pretreatment_data
extract_pretreatment_data(item, id_, name, mark_) ==
    pretreatment_data(item, safe_extract(item, id_, PyStr("")), name, mark_)

\* case "post" of preprocessing_data, from the selected item on
post_triple(item, params, mark_) ==
    IF IsRaise(item) THEN item
    ELSE extract_pretreatment_data(item, params.uid, params.nickname, mark_)

\* Extractor.preprocessing_data
preprocessing_data(data, t, mode_, mark_, user_id) ==
    IF Tag(data) = "dict"
    THEN profile_triple(IF t THEN get_user_info_tiktok(data)
                        ELSE get_user_info(data), mark_, user_id)
    ELSE IF Tag(data) = "list" /\ mode_ = "post"
    THEN post_triple(select_item(Val(data), user_id,
                        (IF t THEN extract_params_tiktok ELSE extract_params).sec_uid),
                     IF t THEN extract_params_tiktok ELSE extract_params, mark_)
    ELSE Raise("DownloaderError")

\* the log.error calls of preprocessing_data: one when the profile lacks a
\* field, one when its sec_uid differs
profile_errors(info_, user_id) ==
    (IF Truthy(info_) THEN 0 ELSE 1)
        + (IF differs(user_id, get(info_, "sec_uid")) THEN 1 ELSE 0)

preprocessing_errors(data, t, user_id) ==
    IF Tag(data) = "dict"
    THEN profile_errors(IF t THEN get_user_info_tiktok(data)
                        ELSE get_user_info(data), user_id)
    ELSE 0

\* all((id_, name, mark))
all(triple_) == \A k \in 1..Len(Val(triple_)) : Truthy(Val(triple_)[k])

-----------------------------------------------------------------------------
(* The counters of src/custom/function.py and the state no run has touched *)

NoStats == [total |-> 0, filtered |-> 0, image |-> 0, live |-> 0]

\* no name, no mark, not the same author
NoKwargs == [name |-> "", mark |-> "", same |-> FALSE]

\* the account's variables while no account is processed
\* a local variable that is not bound yet
Unbound == <<"unbound", "">>

AccountIdle ==
    /\ api = FALSE
    /\ info = None
    /\ sec_user_id = ""
    /\ tab = ""
    /\ mark = ""
    /\ triple = None
    /\ recorder = "none"
    /\ cache = <<>>
    /\ downloaded = None
    /\ account_result = None
    /\ success = 0
    /\ failed = 0
    /\ source = FALSE
    /\ old_mark = Unbound
    /\ link = ""
    /\ link_index = 0
    /\ accounts = 0
    /\ store = None
    /\ book = None

\* the pipeline's variables while no pipeline runs
PipelineIdle ==
    /\ works = <<>>
    /\ mode = ""
    /\ rule = "all"
    /\ earliest = 0
    /\ latest = 0
    /\ clock = 0
    /\ kwargs = NoKwargs
    /\ AccountIdle
    /\ all_data = <<>>
    /\ records = <<>>
    /\ saved = <<>>
    /\ cursor = 0
    /\ pending = <<>>
    /\ filter_stats = NoStats

-----------------------------------------------------------------------------
(* Path resolution: safe_extract applied to converted payloads *)

\* longest list in a payload of the path-resolution runs
MaxLen == 2

Scalars == {None, PyInt(0), PyInt(7), PyStr(""), PyStr("hi")}

Members == Scalars \cup {PyDict([c |-> PyStr("v")]), PyDict([c |-> PyInt(0)])}

Lists == UNION {[1..n -> Members] : n \in 0..MaxLen}

\* the values of the child a.b
Children == Members \cup {PyList(q) : q \in Lists} \cup {PyDict(NoFields)}

\* the raw payloads: JSON objects as json.loads returns them
RawTrees ==
    {PyDict([a |-> PyDict([b |-> x])]) : x \in Children}
        \cup {PyDict([a |-> PyDict(NoFields)]), PyDict([a |-> PyList(<<PyInt(7)>>)])}

IndexTexts ==
    {ToString(i) : i \in (0 - MaxLen - 1)..MaxLen} \cup {"", "x", " 1 ", "+1"}

Chains ==
    {"", "a", "a.b", "a.z", "z.b", "a..b", "a.b.c", "a.b.c.d",
     "__dict__", "a.__dict__",
     "a[0]", "__dict__[0]", "a.__dict__[0]", "a.b[0", "a.b[0]x", "[0]"}
        \cup {"a.b[" \o i \o "]" : i \in IndexTexts}
        \cup {"a.b[" \o i \o "].c" : i \in IndexTexts}
        \cup {"a.z[" \o i \o "]" : i \in {"0", "-1"}}

Defaults == {PyStr(""), PyInt(0 - 1), PyList(<<>>)}

InitResolve ==
    /\ pc = "raw"
    /\ tree \in RawTrees
    /\ chain \in Chains
    /\ dflt \in Defaults
    /\ result = None
    /\ tiktok = FALSE
    /\ variants = <<>>
    /\ errors = 0
    /\ PipelineIdle

\* data = Extractor.generate_data_object(payload)
Convert ==
    /\ pc = "raw"
    /\ tree' = generate_data_object(tree)
    /\ pc' = "tree"
    /\ UNCHANGED <<result, resolveVars, qualityVars, tiktok, errors, pipelineVars>>

\* Extractor.safe_extract(data, attribute_chain, default)
Resolve ==
    /\ pc = "tree"
    /\ result' = safe_extract(tree, chain, dflt)
    /\ pc' = "resolved"
    /\ UNCHANGED <<tree, resolveVars, qualityVars, tiktok, errors, pipelineVars>>

NextResolve == Convert \/ Resolve

SpecResolve == InitResolve /\ [][NextResolve]_vars

-----------------------------------------------------------------------------
(* The resolver of the design (section 4.1), for the path-resolution claims:
   a mapping has named children, a sequence has indexed elements, and a
   string, a number and null have neither. *)

WellFormedSegment(seg) ==
    IF Contains(seg, "[")
    THEN LET parts == split1(seg, "[")
             n == Len(parts[2])
         IN  /\ parts[1] # ""
             /\ n >= 2
             /\ Char(parts[2], n) = "]"
             /\ ~Contains(SubSeq(parts[2], 1, n - 1), "]")
             /\ ~IsRaise(int(SubSeq(parts[2], 1, n - 1)))
    ELSE seg # "" /\ ~Contains(seg, "]")

WellFormedChain(c) ==
    LET segs == split(c, ".") IN \A k \in 1..Len(segs) : WellFormedSegment(segs[k])

SegmentName(seg) == split1(seg, "[")[1]
SegmentIndex(seg) == Val(int(split1(split1(seg, "[")[2], "]")[1]))

IsMapping(node) == Tag(node) = "ns"
IsSequence(node) == Tag(node) = "list"
IsEmptyValue(node) ==
    node \in {None, PyStr(""), PyInt(0), PyList(<<>>)}

\* <<"found", value>>, or why the walk stopped: "absent" (no such named
\* child), "range" (index out of range) or "mismatch" (an index applied
\* to a non-sequence, a name looked up in a non-mapping)
RECURSIVE walk(_, _, _)
walk(node, segs, k) ==
    IF k > Len(segs) THEN <<"found", node>>
    ELSE
        LET seg == segs[k]
            name == SegmentName(seg)
        IN  IF ~IsMapping(node) THEN <<"mismatch", node>>
            ELSE IF name \notin DOMAIN Val(node) THEN <<"absent", node>>
            ELSE
                LET child == Val(node)[name] IN
                IF ~Contains(seg, "[") THEN walk(child, segs, k + 1)
                ELSE IF ~IsSequence(child) THEN <<"mismatch", child>>
                ELSE
                    LET n == Len(Val(child))
                        i == IF SegmentIndex(seg) < 0
                             THEN SegmentIndex(seg) + n
                             ELSE SegmentIndex(seg)
                    IN  IF i < 0 \/ i >= n THEN <<"range", child>>
                        ELSE walk(Val(child)[i + 1], segs, k + 1)

resolve(root, path, default) ==
    LET w == walk(root, split(path, "."), 1) IN
    IF w[1] = "found" /\ ~IsEmptyValue(w[2]) THEN w[2] ELSE default

\* C2: safe_extract never raises; every call returns a value or the default.
SafeExtractNeverRaises ==
    pc = "resolved" => ~IsRaise(result)

\* C3: on a well-formed path safe_extract returns what the resolver of the
\* design returns: the value found by following the segments when it is
\* non-empty, the default when a child is absent, an index is out of range
\* or the final value is empty.
SafeExtractAgreesWithResolver ==
    pc = "resolved" /\ WellFormedChain(chain)
        => result = resolve(tree, chain, dflt)

\* C4: a type mismatch at any segment (an index applied to a child that is
\* not a sequence, a name looked up in a node that is not a mapping) makes
\* safe_extract return the default.
TypeMismatchYieldsDefault ==
    pc = "resolved" /\ WellFormedChain(chain)
        /\ walk(tree, split(chain, "."), 1)[1] = "mismatch"
        => result = dflt

-----------------------------------------------------------------------------
(* Quality selection on bounded variant lists *)

\* longest variant list of a payload
MaxVariants == 2

FrameRates == {30, 60}
BitRates == {1000, 2000}
Sizes == {500, 900}
Dimensions == {<<480, 720>>, <<1080, 1920>>, <<1920, 1080>>}

\* how a variant departs from the expected structure
Shapes ==
    {"no_rate", "no_play_addr", "null_play_addr", "no_height", "null_height",
     "no_urls", "empty_urls"}

Variants ==
    [fps : FrameRates, br : BitRates, size : Sizes, dim : Dimensions, shape : {"ok"}]
        \cup [fps : {30}, br : {1000}, size : {500}, dim : {<<480, 720>>},
              shape : Shapes]

\* the URL candidates of the variant at position k
UrlList(k) ==
    <<PyStr("u" \o ToString(k) \o "a"), PyStr("u" \o ToString(k) \o "b")>>

Without(f, key) == [x \in DOMAIN f \ {key} |-> f[x]]

\* the JSON object of variant v at position k; n names the platform's keys.
\* (Source-B objects are given a frame rate too, which its selector never
\* reads.)
RawVariant(v, k, n) ==
    LET addr == (n.size :> PyInt(v.size)) @@ (n.height :> PyInt(v.dim[1]))
                @@ (n.width :> PyInt(v.dim[2])) @@ (n.urls :> PyList(UrlList(k)))
        full == ("FPS" :> PyInt(v.fps)) @@ (n.rate :> PyInt(v.br))
                @@ (n.addr :> PyDict(addr))
        with(a) == PyDict([full EXCEPT ![n.addr] = a])
    IN  CASE v.shape = "ok" -> PyDict(full)
          [] v.shape = "no_rate" -> PyDict(Without(full, n.rate))
          [] v.shape = "no_play_addr" -> PyDict(Without(full, n.addr))
          [] v.shape = "null_play_addr" -> with(None)
          [] v.shape = "no_height" -> with(PyDict(Without(addr, n.height)))
          [] v.shape = "null_height" -> with(PyDict([addr EXCEPT ![n.height] = None]))
          [] v.shape = "no_urls" -> with(PyDict(Without(addr, n.urls)))
          [] v.shape = "empty_urls" -> with(PyDict([addr EXCEPT ![n.urls] = PyList(<<>>)]))

KeysDouyin ==
    [list |-> "bit_rate", rate |-> "bit_rate", addr |-> "play_addr",
     size |-> "data_size", height |-> "height", width |-> "width",
     urls |-> "url_list"]

KeysTikTok ==
    [list |-> "bitrateInfo", rate |-> "Bitrate", addr |-> "PlayAddr",
     size |-> "DataSize", height |-> "Height", width |-> "Width",
     urls |-> "UrlList"]

Keys(t) == IF t THEN KeysTikTok ELSE KeysDouyin

\* the items whose variant list is vs; an item may also have no list at all
RawItems(vs, t) ==
    LET list == PyList([k \in 1..Len(vs) |-> RawVariant(vs[k], k, Keys(t))]) IN
    {PyDict([video |-> PyDict(Keys(t).list :> list)])}
        \cup (IF vs = <<>>
              THEN {PyDict(NoFields),
                    PyDict([video |-> PyDict([ratio |-> PyStr("720p")])]),
                    PyDict([video |-> PyDict(Keys(t).list :> None)])}
              ELSE {})

InitQuality ==
    /\ pc = "raw"
    /\ tiktok \in BOOLEAN
    /\ variants \in UNION {[1..n -> Variants] : n \in 0..MaxVariants}
    /\ tree \in RawItems(variants, tiktok)
    /\ chain = ""
    /\ dflt = None
    /\ result = None
    /\ errors = 0
    /\ PipelineIdle

\* Extractor.__extract_video_download(data)
ExtractVideoDownload ==
    /\ pc = "tree"
    /\ ~tiktok
    /\ result' = extract_video_download(tree)
    /\ errors' = IF parse_failed(tree) THEN errors + 1 ELSE errors
    /\ pc' = "selected"
    /\ UNCHANGED <<tree, resolveVars, tiktok, variants, pipelineVars>>

\* Extractor.__extract_video_download_tiktok(data)
ExtractVideoDownloadTikTok ==
    /\ pc = "tree"
    /\ tiktok
    /\ result' = extract_video_download_tiktok(tree)
    /\ errors' = IF parse_failed_tiktok(tree) THEN errors + 1 ELSE errors
    /\ pc' = "selected"
    /\ UNCHANGED <<tree, resolveVars, tiktok, variants, pipelineVars>>

NextQuality == Convert \/ ExtractVideoDownload \/ ExtractVideoDownloadTikTok

SpecQuality == InitQuality /\ [][NextQuality]_vars

-----------------------------------------------------------------------------
(* Quality selection claims *)

MaxDim(v) == IF v.dim[2] > v.dim[1] THEN v.dim[2] ELSE v.dim[1]

\* (max(height, width), frame_rate, bit_rate, byte_size)
Key4(v) == <<MaxDim(v), v.fps, v.br, v.size>>

\* (max(height, width), bit_rate, byte_size)
Key3(v) == <<MaxDim(v), v.br, v.size>>

LexLess(x, y) ==
    \E k \in 1..Len(x) : x[k] < y[k] /\ \A j \in 1..(k - 1) : x[j] = y[j]

MaximalKey4(k) ==
    \A j \in 1..Len(variants) : ~LexLess(Key4(variants[k]), Key4(variants[j]))

MaximalKey3(k) ==
    \A j \in 1..Len(variants) : ~LexLess(Key3(variants[k]), Key3(variants[j]))

AllWellFormed == \A k \in 1..Len(variants) : variants[k].shape = "ok"

\* q[i] with a Python index
PyIndex(q, i) == q[IF i < 0 THEN Len(q) + i + 1 ELSE i + 1]

TripleOf(k, url) ==
    PyTuple(<<PyInt(variants[k].dim[1]), PyInt(variants[k].dim[2]), url>>)

\* C5: on a non-empty well-formed list the Source-A selector returns the
\* height and width of a variant maximal under the lexicographic order on
\* (max(height, width), frame_rate, bit_rate, byte_size) and the last URL
\* candidate of that same variant.
DouyinSelectsMaximalVariant ==
    pc = "selected" /\ ~tiktok /\ variants # <<>> /\ AllWellFormed
        => \E k \in 1..Len(variants) :
                /\ MaximalKey4(k)
                /\ result = TripleOf(k, PyIndex(UrlList(k), 0 - 1))

\* C5 witness: the maximal variant is the first of two and is selected
DouyinSelectsFirstOfTwo ==
    /\ pc = "selected" /\ ~tiktok /\ Len(variants) = 2 /\ AllWellFormed
    /\ LexLess(Key4(variants[2]), Key4(variants[1]))
    /\ result = TripleOf(1, PyIndex(UrlList(1), 0 - 1))

\* C6 as stated: the Source-B selector orders the variants like Source-A,
\* the frame rate breaking ties before the bit rate.
TikTokSelectsByFrameRate ==
    pc = "selected" /\ tiktok /\ variants # <<>> /\ AllWellFormed
        => \E k \in 1..Len(variants) :
                /\ MaximalKey4(k)
                /\ result = TripleOf(k, PyIndex(UrlList(k), VIDEO_TIKTOK_INDEX))

\* C6 amended: the Source-B selector returns a variant maximal under the
\* lexicographic order on (max(height, width), bit_rate, byte_size), the
\* frame rate playing no part, and the URL candidate of that variant at
\* VIDEO_TIKTOK_INDEX.
TikTokSelectsMaximalVariant ==
    pc = "selected" /\ tiktok /\ variants # <<>> /\ AllWellFormed
        => \E k \in 1..Len(variants) :
                /\ MaximalKey3(k)
                /\ result = TripleOf(k, PyIndex(UrlList(k), VIDEO_TIKTOK_INDEX))

\* C6 witness: equal resolution, the first variant has the higher frame
\* rate and the second the higher bit rate; the second is selected
TikTokPrefersBitRate ==
    /\ pc = "selected" /\ tiktok /\ Len(variants) = 2 /\ AllWellFormed
    /\ MaxDim(variants[1]) = MaxDim(variants[2])
    /\ variants[1].fps > variants[2].fps
    /\ variants[1].br < variants[2].br
    /\ result = TripleOf(2, PyIndex(UrlList(2), VIDEO_TIKTOK_INDEX))

\* C7: outside the degrade path the triple of either platform is the
\* sentinel (-1, -1, "") or the height, width and a URL candidate of one and
\* the same variant; an empty or absent variant list gives the sentinel.
TripleIsOneVariantOrSentinel ==
    pc = "selected" /\ errors = 0
        => /\ variants = <<>> => result = Sentinel
           /\ variants # <<>> /\ ~IsRaise(result)
                => \E k \in 1..Len(variants) :
                        /\ variants[k].shape = "ok"
                        /\ \E u \in 1..Len(UrlList(k)) :
                                result = TripleOf(k, UrlList(k)[u])

\* C7 witness: a triple selected among two variants of different dimensions
TripleAmongTwoVariants ==
    /\ pc = "selected" /\ errors = 0 /\ Len(variants) = 2
    /\ variants[1].dim # variants[2].dim
    /\ Tag(result) = "tuple"

\* a variant that lacks a sub-field the selector reads
LacksSubField(v) ==
    v.shape \in {"no_rate", "no_play_addr", "null_play_addr", "no_height", "no_urls"}

FirstHeight ==
    IF variants[1].shape \in {"no_play_addr", "null_play_addr", "no_height", "null_height"}
    THEN MinusOne ELSE PyInt(variants[1].dim[1])

FirstWidth ==
    IF variants[1].shape \in {"no_play_addr", "null_play_addr"}
    THEN MinusOne ELSE PyInt(variants[1].dim[2])

\* the URL candidate of the first variant at Python index i, "" without one
FirstUrl(i) ==
    IF variants[1].shape \in {"no_play_addr", "null_play_addr", "no_urls", "empty_urls"}
    THEN PyStr("") ELSE PyIndex(UrlList(1), i)

\* C8 as stated: when a variant lacks a sub-field, the failure is logged and
\* the first raw variant's height and width (-1 when missing) are returned
\* with that variant's last URL candidate, on either platform.
DegradeReturnsLastUrl ==
    pc = "selected" /\ (\E k \in 1..Len(variants) : LacksSubField(variants[k]))
        => /\ errors = 1
           /\ result = PyTuple(<<FirstHeight, FirstWidth, FirstUrl(0 - 1)>>)

\* C8 amended: as above, the URL being the first variant's last candidate on
\* Source-A and its candidate at VIDEO_TIKTOK_INDEX on Source-B (the empty
\* string when the first variant has no candidates).
DegradeReturnsFirstVariant ==
    pc = "selected" /\ (\E k \in 1..Len(variants) : LacksSubField(variants[k]))
        => /\ errors = 1
           /\ result = PyTuple(<<FirstHeight, FirstWidth,
                    FirstUrl(IF tiktok THEN VIDEO_TIKTOK_INDEX ELSE 0 - 1)>>)

\* C8 witness: the second variant lacks a sub-field and the triple is the
\* first variant's, on Source-A with its last URL candidate
DegradeAfterSecondVariant ==
    /\ pc = "selected" /\ ~tiktok /\ Len(variants) = 2 /\ errors = 1
    /\ variants[1].shape = "ok" /\ LacksSubField(variants[2])
    /\ result = TripleOf(1, UrlList(1)[2])


-----------------------------------------------------------------------------
(* The runs of Extractor.run over a list of payloads: each stage of __batch
   and __detail is a step, and recorder.save is awaited once per item *)

MaxItems == 2

\* the arguments of the call, which no stage assigns
callVars ==
    <<tree, tiktok, works, mode, rule, earliest, latest, clock, kwargs,
      resolveVars, qualityVars, accountVars>>

Kinds ==
    {"video", "old", "no_id", "empty_id", "no_time", "images", "live",
     "empty_urls", "null_height", "degraded", "no_variants"}

\* the creation times of the works, the date range of the batch and the time
\* of the run (seconds, resp. days, since the epoch)
Recent == PyInt(1718409600)
Old == PyInt(1500000000)
Range == [earliest |-> 19875, latest |-> 19904]
Now == PyInt(1730505600)

Variant(shape, dim) ==
    [fps |-> 30, br |-> 1000, size |-> 500, dim |-> dim, shape |-> shape]

\* the variant lists of the kinds of work
VariantsOf(kind) ==
    CASE kind = "empty_urls" -> <<Variant("empty_urls", <<480, 720>>)>>
      [] kind = "null_height" -> <<Variant("null_height", <<480, 720>>)>>
      [] kind = "degraded" ->
            <<Variant("no_rate", <<480, 720>>), Variant("ok", <<1080, 1920>>)>>
      [] OTHER -> <<Variant("ok", <<480, 720>>), Variant("ok", <<1080, 1920>>)>>

\* the author of the work of the given kind: one with a clean nickname,
\* unless the kind is one of the kinds of author
NicknameOf(kind) ==
    CASE kind = "unclean" -> "b/o"
      [] kind = "symbols" -> "//"
      [] OTHER -> "ann"

\* the kinds of work of a list of posts: two of the account X, with other
\* uids and nicknames, one of the account Y, one of the account Y by an
\* author without nickname
PostKinds == {"mine", "also_mine", "other", "nameless"}

\* the sec_uid, uid and nickname of the author of a post
Account(kind) ==
    CASE kind = "mine" -> <<"X", "7", PyStr("ann")>>
      [] kind = "also_mine" -> <<"X", "9", PyStr("b/o ")>>
      [] kind = "other" -> <<"Y", "8", PyStr("cat")>>
      [] kind = "nameless" -> <<"Y", "6", None>>

\* the author object of the account, under the keys of the platform
AuthorOf(account, t) ==
    PyDict((IF t THEN [secUid |-> PyStr(account[1]), id |-> PyStr(account[2])]
            ELSE [sec_uid |-> PyStr(account[1]), uid |-> PyStr(account[2])])
           @@ (IF account[3] = None THEN NoFields ELSE [nickname |-> account[3]]))

\* the kinds of work with a description, counters and an author with a
\* handle, but for what the kind names: an album is a set of images
DescribedKinds ==
    {"full", "album", "zero_share", "no_play", "no_handle", "blank_desc",
     "spaced_desc", "zero_time"}

\* the author of a described work, under the keys of the platform
Handle(kind, t) ==
    PyDict([nickname |-> PyStr("ann")]
           @@ (IF kind = "no_handle" THEN NoFields
               ELSE IF t THEN [uniqueId |-> PyStr("ann")]
               ELSE [unique_id |-> PyStr("ann")]))

\* the counters of a described work, under the keys of the platform
Counters(kind, t) ==
    PyDict((IF t THEN [diggCount |-> PyInt(11), commentCount |-> PyInt(12),
                       collectCount |-> PyInt(13),
                       shareCount |-> PyInt(IF kind = "zero_share" THEN 0 ELSE 14)]
            ELSE [digg_count |-> PyInt(11), comment_count |-> PyInt(12),
                  collect_count |-> PyInt(13),
                  share_count |-> PyInt(IF kind = "zero_share" THEN 0 ELSE 14)])
           @@ (IF kind = "no_play" THEN NoFields
               ELSE IF t THEN [playCount |-> PyInt(15)]
               ELSE [play_count |-> PyInt(15)]))

\* the description and the counters of a work
Described(kind, t) ==
    IF kind \notin DescribedKinds THEN NoFields
    ELSE [desc |-> PyStr(CASE kind = "blank_desc" -> " /"
                           [] kind = "spaced_desc" -> " a  b"
                           [] OTHER -> "hi")]
            @@ (IF t THEN [stats |-> Counters(kind, t)]
                ELSE [statistics |-> Counters(kind, t)])

Author(kind, t) ==
    CASE kind = "anonymous" -> NoFields
      [] kind = "deleted" -> [author |-> PyDict([uid |-> PyStr("7")])]
      [] kind \in PostKinds -> [author |-> AuthorOf(Account(kind), t)]
      [] kind \in DescribedKinds -> [author |-> Handle(kind, t)]
      [] OTHER -> [author |-> PyDict([nickname |-> PyStr(NicknameOf(kind))])]

\* the payload of the work of the given kind at position k of the list
RawWork(kind, k, t) ==
    LET n == Keys(t)
        vs == VariantsOf(kind)
        video == PyDict(n.list :>
                    PyList([j \in 1..Len(vs) |-> RawVariant(vs[j], j, n)]))
        id == (IF t THEN "id" ELSE "aweme_id") :>
                    (IF kind = "empty_id" THEN PyStr("")
                     ELSE PyStr("w" \o ToString(k)))
        time == (IF t THEN "createTime" ELSE "create_time") :>
                    (CASE kind = "old" -> Old
                       [] kind = "zero_time" -> PyInt(0)
                       [] OTHER -> Recent)
        image == IF t THEN PyDict([imageURL |-> PyDict([urlList |-> PyList(UrlList(k))])])
                 ELSE PyDict([url_list |-> PyList(UrlList(k))])
        slide == PyDict([video |-> video, url_list |-> PyList(UrlList(k))])
        media == CASE kind \in {"images", "album"} /\ t ->
                        [imagePost |-> PyDict([images |-> PyList(<<image, image>>)])]
                   [] kind \in {"images", "album"} /\ ~t ->
                        [images |-> PyList(<<image, image>>)]
                   [] kind = "live" /\ t ->
                        [imagePost |-> PyDict([images |-> PyList(<<image>>)])]
                   [] kind = "live" /\ ~t -> [images |-> PyList(<<image, slide>>)]
                   [] kind = "no_variants" -> [desc |-> PyStr("")]
                   [] OTHER -> [video |-> video]
    IN  PyDict((IF kind = "no_id" THEN NoFields ELSE id)
               @@ (IF kind = "no_time" THEN NoFields ELSE time)
               @@ media @@ Author(kind, t) @@ Described(kind, t))

\* the keyword arguments of a batch run over the works of one account
SameAuthor == [name |-> "fan", mark |-> "", same |-> TRUE]

Init ==
    /\ pc = "call"
    /\ tiktok \in BOOLEAN
    /\ mode \in {"batch", "detail", "comment"}
    /\ rule \in {"all", "videos"}
    /\ works \in UNION {[1..n -> Kinds] : n \in 0..MaxItems}
    /\ tree = PyList([k \in 1..Len(works) |-> RawWork(works[k], k, tiktok)])
    /\ earliest = Range.earliest
    /\ latest = Range.latest
    /\ clock = Val(Now)
    /\ kwargs = IF mode = "batch" THEN SameAuthor ELSE NoKwargs
    /\ AccountIdle
    /\ all_data = <<>>
    /\ records = <<>>
    /\ saved = <<>>
    /\ cursor = 0
    /\ pending = <<>>
    /\ filter_stats = NoStats
    /\ chain = ""
    /\ dflt = None
    /\ variants = <<>>
    /\ result = None
    /\ errors = 0

\* __batch persists after the custom filter
next_stage_batch_late_filter(type_, stage) ==
    IF type_ = "batch"
    THEN CASE stage = "log" -> "date"
           [] stage = "date" -> "record"
           [] stage = "record" -> "hook"
           [] stage = "hook" -> "return"
    ELSE CASE stage = "log" -> "record"
           [] stage = "record" -> "hook"
           [] stage = "hook" -> "return"

\* __detail filters before it persists
next_stage_detail_early_filter(type_, stage) ==
    IF type_ = "batch"
    THEN CASE stage = "log" -> "date"
           [] stage = "date" -> "hook"
           [] stage = "hook" -> "record"
           [] stage = "record" -> "return"
    ELSE CASE stage = "log" -> "hook"
           [] stage = "hook" -> "record"
           [] stage = "record" -> "return"

\* the stage that follows a stage in Extractor.__batch and Extractor.__detail
next_stage(type_, stage) ==
    IF type_ = "batch"
    THEN CASE stage = "log" -> "date"
           [] stage = "date" -> "hook"
           [] stage = "hook" -> "record"
           [] stage = "record" -> "return"
    ELSE CASE stage = "log" -> "record"
           [] stage = "record" -> "hook"
           [] stage = "hook" -> "return"

\* a table that knows every mode name
type_keys_open == {"batch", "detail", "comment"}

\* self.type.keys()
type_keys == {"batch", "detail"}

\* Extractor.run: an unknown type_ raises DownloaderError
Run ==
    /\ pc = "call"
    /\ IF mode \in type_keys
       THEN pc' = "extract" /\ UNCHANGED result
       ELSE pc' = "done" /\ result' = Raise("DownloaderError")
    /\ UNCHANGED <<callVars, errors, all_data, records, saved, cursor,
                   pending, filter_stats>>

\* Extractor.__platform_classify_detail: an exception of an item ends the run
PlatformClassifyDetail ==
    /\ pc = "extract"
    /\ \E items \in {platform_classify_detail(Val(tree),
                        container_of(mode, kwargs), tiktok, clock)} :
           /\ IF HasRaise(items)
              THEN pc' = "done" /\ result' = FirstRaise(items) /\ UNCHANGED all_data
              ELSE pc' = "clean" /\ all_data' = items /\ UNCHANGED result
           /\ errors' = errors + log_count(Val(tree), items, tiktok, clock)
    /\ UNCHANGED <<callVars, records, saved, cursor, pending, filter_stats>>

\* Extractor.__clean_extract_data with detail_necessary_keys
CleanExtractData ==
    /\ pc = "clean"
    /\ all_data' = clean_extract_data(all_data, "id")
    /\ pc' = "log"
    /\ UNCHANGED <<callVars, result, errors, records, saved, cursor,
                   pending, filter_stats>>

\* Extractor.__extract_item_records
ExtractItemRecords ==
    /\ pc = "log"
    /\ records' = records \o
            [k \in 1..Len(all_data) |->
                <<get(all_data[k], "type"), get(all_data[k], "id")>>]
    /\ pc' = next_stage(mode, "log")
    /\ UNCHANGED <<callVars, result, errors, all_data, saved, cursor,
                   pending, filter_stats>>

\* Extractor.__date_filter
DateFilter ==
    /\ pc = "date"
    /\ \E r \in {date_filter(all_data, earliest, latest)} :
       IF IsRaise(r)
       THEN pc' = "done" /\ result' = r /\ UNCHANGED all_data
       ELSE pc' = next_stage(mode, "date") /\ all_data' = Val(r) /\ UNCHANGED result
    /\ UNCHANGED <<callVars, errors, records, saved, cursor,
                   pending, filter_stats>>

\* Extractor.__condition_filter
ConditionFilter ==
    /\ pc = "hook"
    /\ all_data' = SelectSeq(all_data, LAMBDA i : condition_filter(i, rule))
    /\ filter_stats' = count_all(filter_stats, all_data, rule)
    /\ pc' = next_stage(mode, "hook")
    /\ UNCHANGED <<callVars, result, errors, records, saved, cursor, pending>>

\* recorder.save is started for the next item whatever became of the call
\* before it
not_awaited(calls) == TRUE

\* await: the loop goes on when the call it made has completed
awaited(calls) == calls = <<>>

\* q without its element at position i
Remove(q, i) == SubSeq(q, 1, i - 1) \o SubSeq(q, i + 1, Len(q))

\* Extractor.__record_data: recorder.save is called for the next item
Save ==
    /\ pc = "record"
    /\ cursor < Len(all_data)
    /\ awaited(pending)
    /\ pending' = Append(pending, extract_values(all_data[cursor + 1]))
    /\ cursor' = cursor + 1
    /\ UNCHANGED <<pc, callVars, result, errors, all_data, records, saved,
                   filter_stats>>

\* a recorder.save call completes: its row is written
SaveDone ==
    /\ \E i \in 1..Len(pending) :
            /\ saved' = Append(saved, pending[i])
            /\ pending' = Remove(pending, i)
    /\ UNCHANGED <<pc, callVars, result, errors, all_data, records, cursor,
                   filter_stats>>

\* Extractor.__record_data: the loop ends after the last call
RecordData ==
    /\ pc = "record"
    /\ cursor = Len(all_data)
    /\ awaited(pending)
    /\ pc' = next_stage(mode, "record")
    /\ UNCHANGED <<callVars, result, errors, all_data, records, saved, cursor,
                   pending, filter_stats>>

\* return container.all_data
Return ==
    /\ pc = "return"
    /\ result' = PyList(all_data)
    /\ pc' = "done"
    /\ UNCHANGED <<callVars, errors, all_data, records, saved, cursor,
                   pending, filter_stats>>

Next ==
    \/ Run
    \/ PlatformClassifyDetail
    \/ CleanExtractData
    \/ ExtractItemRecords
    \/ DateFilter
    \/ ConditionFilter
    \/ Save
    \/ SaveDone
    \/ RecordData
    \/ Return

Spec == Init /\ [][Next]_vars

-----------------------------------------------------------------------------
(* The runs over the works of several authors, with and without the same
   argument of a batch *)

\* the kinds of author of a work: one with a clean nickname, one whose
\* nickname holds a character that is removed, one whose nickname holds
\* nothing else, one without nickname, and a work without author
AuthorKinds == {"video", "unclean", "symbols", "deleted", "anonymous"}

\* the name, mark and same arguments of a batch
Arguments ==
    {[name |-> "fan", mark |-> m, same |-> b] : m \in {"", "pal"}, b \in BOOLEAN}

InitNickname ==
    /\ pc = "call"
    /\ tiktok \in BOOLEAN
    /\ mode \in {"batch", "detail"}
    /\ rule = "all"
    /\ works \in UNION {[1..n -> AuthorKinds] : n \in 0..MaxItems}
    /\ tree = PyList([k \in 1..Len(works) |-> RawWork(works[k], k, tiktok)])
    /\ earliest = Range.earliest
    /\ latest = Range.latest
    /\ clock = Val(Now)
    /\ kwargs \in IF mode = "batch" THEN Arguments ELSE {NoKwargs}
    /\ AccountIdle
    /\ all_data = <<>>
    /\ records = <<>>
    /\ saved = <<>>
    /\ cursor = 0
    /\ pending = <<>>
    /\ filter_stats = NoStats
    /\ chain = ""
    /\ dflt = None
    /\ variants = <<>>
    /\ result = None
    /\ errors = 0

SpecNickname == InitNickname /\ [][Next]_vars

-----------------------------------------------------------------------------
(* The runs over works with and without description, counters, handle and
   creation time, at two times of the clock *)

ItemKinds == DescribedKinds \cup {"no_time", "empty_id"}

\* a later time of the run
Later == PyInt(1730509200)

InitItems ==
    /\ pc = "call"
    /\ tiktok \in BOOLEAN
    /\ mode \in {"batch", "detail"}
    /\ rule = "all"
    /\ works \in UNION {[1..n -> ItemKinds] : n \in 0..MaxItems}
    /\ tree = PyList([k \in 1..Len(works) |-> RawWork(works[k], k, tiktok)])
    /\ earliest = Range.earliest
    /\ latest = Range.latest
    /\ clock \in {Val(Now), Val(Later)}
    /\ kwargs = IF mode = "batch" THEN SameAuthor ELSE NoKwargs
    /\ AccountIdle
    /\ all_data = <<>>
    /\ records = <<>>
    /\ saved = <<>>
    /\ cursor = 0
    /\ pending = <<>>
    /\ filter_stats = NoStats
    /\ chain = ""
    /\ dflt = None
    /\ variants = <<>>
    /\ result = None
    /\ errors = 0

SpecItems == InitItems /\ [][Next]_vars

-----------------------------------------------------------------------------
(* The processing of an account: TikTok.__account_detail_handle,
   deal_account_detail and _batch_process_detail of
   src/application/main_terminal.py *)

MaxPosts == 2

\* False and True
False == PyInt(0)
True == PyInt(1)

\* what get_user_info_data returned: the profile of the account X or of the
\* account Y, a profile without sec_uid, or nothing
ProfileKinds == {"X", "Y", "no_sec_uid", "none"}

ProfileOf(kind, t) ==
    IF t
    THEN [nickname |-> PyStr("ann"), id |-> PyStr("7")]
            @@ (IF kind = "no_sec_uid" THEN NoFields ELSE [secUid |-> PyStr(kind)])
    ELSE [nickname |-> PyStr("ann"), uid |-> PyStr("7")]
            @@ (IF kind = "no_sec_uid" THEN NoFields ELSE [sec_uid |-> PyStr(kind)])

Profile(kind, t) ==
    IF kind = "none" THEN None
    ELSE IF t THEN PyDict([user |-> PyDict(ProfileOf(kind, t))])
    ELSE PyDict(ProfileOf(kind, t))

\* the variables of the extractor that the steps of the account leave alone
extractorVars ==
    <<tree, tiktok, works, rule, earliest, latest, clock, resolveVars,
      qualityVars, all_data, records, saved, cursor, pending, filter_stats>>

accountArgs ==
    <<api, source, sec_user_id, tab, mark, link, link_index, accounts,
      store>>

\* the header row of failed_links.xlsx: the time, the link, the reason of
\* the failure, the type of the link
Headers == <<"time", "url", "reason", "type">>

\* the reasons and the types of link that are logged
ReasonId == "no sec_user_id"
ReasonData == "no data"
Category(t) == IF t THEN "TikTok account" ELSE "Douyin account"

\* the value of the cell A1 of a sheet
A1(sheet) == IF sheet = <<>> THEN "" ELSE sheet[1][1]

\* a header row is added whenever the sheet is opened
init_title_again(sheet) == Append(sheet, Headers)

\* FailedLogger._init_title: the cells of row 1 are written when A1 is empty
init_title(sheet) ==
    IF A1(sheet) # "" THEN sheet
    ELSE IF sheet = <<>> THEN <<Headers>>
    ELSE [sheet EXCEPT ![1] = Headers]

\* load_workbook(self.path) if self.path.exists() else Workbook(), and its
\* active sheet
workbook(store_) == IF store_ = None THEN <<>> ELSE store_

\* FailedLogger.__aenter__
aenter(store_) == init_title(workbook(store_))

\* no row is written for a link
log_failed_link_never(sheet, now, url, reason, link_type) == sheet

\* FailedLogger.log_failed_link: without sheet the exception is caught and a
\* warning printed
log_failed_link(sheet, now, url, reason, link_type) ==
    IF sheet = None THEN sheet
    ELSE Append(sheet, <<strftime(now), url, reason, link_type>>)

\* cache.has_cache(id_): the mark that update_cache recorded last for the
\* id, None without one
RECURSIVE has_cache(_, _)
has_cache(cache_, id_) ==
    IF cache_ = <<>> THEN None
    ELSE IF Val(Last(cache_))[1] = id_ THEN Val(Last(cache_))[3]
    ELSE has_cache(Front(cache_), id_)

\* the calls of deal_account_detail with a source argument of the set, for
\* an account with works of the kinds
AccountCall(sources, kinds) ==
    /\ pc = "account"
    /\ tiktok \in BOOLEAN
    /\ api \in BOOLEAN
    /\ source \in sources
    /\ info \in IF api THEN {None} ELSE {Profile(kind, tiktok) : kind \in ProfileKinds}
    /\ sec_user_id \in {"X", "Y"}
    /\ tab \in {"post", "favorite"}
    /\ mark \in {"", "pal"}
    /\ works \in UNION {[1..n -> kinds] : n \in 0..MaxPosts}
    /\ tree = PyList([k \in 1..Len(works) |-> RawWork(works[k], k, tiktok)])
    /\ mode = ""
    /\ rule = "all"
    /\ earliest = Range.earliest
    /\ latest = Range.latest
    /\ clock = Val(Now)
    /\ kwargs = NoKwargs
    /\ triple = None
    /\ recorder = "none"
    /\ cache = <<>>
    /\ downloaded = None
    /\ account_result = None
    /\ success = 0
    /\ failed = 0
    /\ old_mark = Unbound
    /\ link = sec_user_id
    /\ link_index = 1
    /\ accounts = 1
    /\ store = None
    /\ book = aenter(store)
    /\ all_data = <<>>
    /\ records = <<>>
    /\ saved = <<>>
    /\ cursor = 0
    /\ pending = <<>>
    /\ filter_stats = NoStats
    /\ chain = ""
    /\ dflt = None
    /\ variants = <<>>
    /\ result = None
    /\ errors = 0

InitAccount == AccountCall({FALSE}, PostKinds)

\* any(account_data)
any(data) == \E k \in 1..Len(data) : Truthy(data[k])

\* the source argument is not looked at
account_route_processed(info_, api_, tab_, data, source_) ==
    IF \/ ~api_ /\ ~Truthy(info_) /\ tab_ \in {"favorite", "collection"}
       \/ ~any(data)
    THEN "none"
    ELSE "process"

\* what deal_account_detail does with the data of the account: without
\* profile the tabs of favorites and collections are given up, and so is an
\* account without works; the source argument has the payloads filtered by
\* date only
account_route(info_, api_, tab_, data, source_) ==
    IF \/ ~api_ /\ ~Truthy(info_) /\ tab_ \in {"favorite", "collection"}
       \/ ~any(data)
    THEN "none"
    ELSE IF source_ THEN "source"
    ELSE "process"

\* deal_account_detail up to the call of _batch_process_detail
DealAccountDetail ==
    /\ pc = "account"
    /\ info' = IF api THEN None ELSE info
    /\ \E route \in {account_route(info, api, tab, Val(tree), source)} :
        CASE route = "none" -> pc' = "handled" /\ account_result' = None
          [] route = "source" ->
                /\ account_result' =
                        source_date_filter(Val(tree), earliest, latest, tiktok)
                /\ pc' = IF IsRaise(account_result') THEN "raised" ELSE "handled"
          [] OTHER -> pc' = "preprocess" /\ UNCHANGED account_result
    /\ UNCHANGED <<extractorVars, accountArgs, mode, kwargs, result, errors,
                   triple, recorder, cache, downloaded, success, failed,
                   old_mark, book>>

\* an empty id, name or mark is not taken for an error
gives_up_never(api_, triple_) == FALSE

\* not api and not all((id_, name, mark))
gives_up(api_, triple_) == ~api_ /\ ~all(triple_)

\* _batch_process_detail up to the check of the triple: an exception of
\* preprocessing_data leaves the handling of the accounts
PreprocessingData ==
    /\ pc = "preprocess"
    /\ \E t \in {preprocessing_data(PyOr(info, tree), tiktok, tab, PyStr(mark),
                                     PyStr(sec_user_id))} :
        /\ triple' = t
        /\ IF IsRaise(t)
           THEN /\ pc' = "raised"
                /\ account_result' = t
                /\ UNCHANGED errors
           ELSE IF gives_up(api, t)
           THEN /\ pc' = "handled"
                /\ account_result' = False
                /\ errors' = errors + 1
                        + preprocessing_errors(PyOr(info, tree), tiktok,
                                               PyStr(sec_user_id))
           ELSE /\ pc' = "cache"
                /\ errors' = errors
                        + preprocessing_errors(PyOr(info, tree), tiktok,
                                               PyStr(sec_user_id))
                /\ UNCHANGED account_result
    /\ UNCHANGED <<extractorVars, accountArgs, info, mode, kwargs, result,
                   recorder, cache, downloaded, success, failed, old_mark, book>>

\* old_mark = f"{m['MARK']}_{suffix}" if (m := await self.cache.has_cache(id_))
\* else None
HasCache ==
    /\ pc = "cache"
    /\ \E m \in {has_cache(cache, Val(triple)[1])} :
        old_mark' = IF Truthy(m) THEN PyStr(Val(m) \o "_posts") ELSE None
    /\ pc' = "open"
    /\ UNCHANGED <<extractorVars, accountArgs, info, mode, kwargs, result,
                   errors, triple, recorder, cache, downloaded, account_result,
                   success, failed, book>>

\* async with logger(...) as recorder, and the call of extractor.run
OpenRecorder ==
    /\ pc = "open"
    /\ recorder' = "open"
    /\ mode' = "batch"
    /\ kwargs' = [name |-> Val(Val(triple)[2]), mark |-> Val(Val(triple)[3]),
                  same |-> TRUE]
    /\ pc' = "call"
    /\ UNCHANGED <<extractorVars, accountArgs, info, result, errors, triple,
                   cache, downloaded, account_result, success, failed,
                   old_mark, book>>

\* the cache is updated and the download started for an api caller too
after_scope_all(api_, data) ==
    IF IsRaise(data) THEN "raised" ELSE "update"

\* where _batch_process_detail goes on after the recorder: an exception of
\* extractor.run leaves it, the data is returned to an api caller
after_scope(api_, data) ==
    IF IsRaise(data) THEN "raised"
    ELSE IF api_ THEN "handled"
    ELSE "update"

\* _batch_process_detail after extractor.run: the recorder is closed, and
\* the data returned to an api caller
BatchProcessed ==
    /\ pc = "done"
    /\ recorder = "open"
    /\ recorder' = "closed"
    /\ pc' = after_scope(api, result)
    /\ account_result' = IF pc' = "update" THEN account_result ELSE result
    /\ UNCHANGED <<extractorVars, accountArgs, info, mode, kwargs, result,
                   errors, triple, cache, downloaded, success, failed,
                   old_mark, book>>

\* await self.cache.update_cache(...)
UpdateCache ==
    /\ pc = "update"
    /\ cache' = Append(cache, triple)
    /\ pc' = "download"
    /\ UNCHANGED <<extractorVars, accountArgs, info, mode, kwargs, result,
                   errors, triple, recorder, downloaded, account_result,
                   success, failed, old_mark, book>>

\* await self.download_detail_batch(data, ...), and return True
DownloadDetailBatch ==
    /\ pc = "download"
    /\ downloaded' = result
    /\ account_result' = True
    /\ pc' = "handled"
    /\ UNCHANGED <<extractorVars, accountArgs, info, mode, kwargs, result,
                   errors, triple, recorder, cache, success, failed, old_mark,
                   book>>

\* the body of the loop of __account_detail_handle after the await
AccountDetailHandle ==
    /\ pc = "handled"
    /\ IF Truthy(account_result)
       THEN success' = success + 1 /\ UNCHANGED <<failed, book>>
       ELSE /\ book' = log_failed_link(book, clock, link, ReasonData,
                                       Category(tiktok))
            /\ failed' = failed + 1
            /\ UNCHANGED success
    /\ pc' = "counted"
    /\ UNCHANGED <<extractorVars, accountArgs, info, mode, kwargs, result,
                   errors, triple, recorder, cache, downloaded, account_result,
                   old_mark>>

NextAccount ==
    \/ DealAccountDetail
    \/ PreprocessingData
    \/ HasCache
    \/ OpenRecorder
    \/ Next
    \/ BatchProcessed
    \/ UpdateCache
    \/ DownloadDetailBatch
    \/ AccountDetailHandle

SpecAccount == InitAccount /\ [][NextAccount]_vars

\* the calls with and without the source argument, for accounts that also
\* have a work from before the range of dates and a work without timestamp
InitCalls == AccountCall(BOOLEAN, PostKinds \cup {"old", "no_time"})

SpecCalls == InitCalls /\ [][NextAccount]_vars


-----------------------------------------------------------------------------
(* The two date filters on their own: Extractor.__date_filter over extracted
   items and Extractor.source_date_filter over raw payloads, for creation
   times around the two ends of the range *)

MaxDated == 3

\* where the creation time of an item lies: the last second before the
\* range, its first second, its middle, its last second, the first second
\* after it; or the item has no creation time, has 0 for it, or has it under
\* the key of the other platform
DatedKinds == {"before", "first", "inside", "last", "after", "none"}
SourceKinds == DatedKinds \cup {"zero", "other"}

\* [2024-06-01, 2024-06-30], [2024-07-01, 2024-07-31] and the one day
\* 2024-06-15, as days since the epoch
Ranges ==
    {[earliest |-> 19875, latest |-> 19904], [earliest |-> 19905, latest |-> 19935],
     [earliest |-> 19889, latest |-> 19889]}

Stamp(kind, first, last) ==
    CASE kind = "before" -> PyInt(first * SecondsPerDay - 1)
      [] kind = "first" -> PyInt(first * SecondsPerDay)
      [] kind = "inside" ->
            PyInt(((first + last) \div 2) * SecondsPerDay + SecondsPerDay \div 2)
      [] kind = "last" -> PyInt(last * SecondsPerDay + SecondsPerDay - 1)
      [] kind = "after" -> PyInt((last + 1) * SecondsPerDay)
      [] kind = "zero" -> PyInt(0)
      [] OTHER -> PyStr("")

\* the extracted item at position k: a missing create_time is extracted
\* as ""
DatedItem(kind, k, first, last) ==
    PyDict([id |-> PyStr("w" \o ToString(k)),
            create_timestamp |-> Stamp(kind, first, last)])

\* the raw payload at position k
SourceItem(kind, k, first, last, t) ==
    PyDict(((IF t THEN "id" ELSE "aweme_id") :> PyStr("w" \o ToString(k)))
           @@ (CASE kind = "none" -> NoFields
                 [] kind = "other" ->
                        (IF t THEN "create_time" ELSE "createTime")
                            :> Stamp("after", first, last)
                 [] OTHER ->
                        (IF t THEN "createTime" ELSE "create_time")
                            :> Stamp(kind, first, last)))

InitDate ==
    /\ pc \in {"date", "source"}
    /\ tiktok \in BOOLEAN
    /\ \E range \in Ranges : earliest = range.earliest /\ latest = range.latest
    /\ works \in UNION {[1..n -> IF pc = "date" THEN DatedKinds ELSE SourceKinds] :
                            n \in 0..MaxDated}
    /\ tree = PyList([k \in 1..Len(works) |->
                        IF pc = "date"
                        THEN DatedItem(works[k], k, earliest, latest)
                        ELSE SourceItem(works[k], k, earliest, latest, tiktok)])
    /\ all_data = IF pc = "date" THEN Val(tree) ELSE <<>>
    /\ mode = "batch"
    /\ rule = "all"
    /\ clock = 0
    /\ kwargs = NoKwargs
    /\ AccountIdle
    /\ records = <<>>
    /\ saved = <<>>
    /\ cursor = 0
    /\ pending = <<>>
    /\ filter_stats = NoStats
    /\ chain = ""
    /\ dflt = None
    /\ variants = <<>>
    /\ result = None
    /\ errors = 0

\* Extractor.source_date_filter(data, earliest, latest, tiktok)
SourceDateFilter ==
    /\ pc = "source"
    /\ result' = source_date_filter(Val(tree), earliest, latest, tiktok)
    /\ pc' = "filtered"
    /\ UNCHANGED <<callVars, errors, all_data, records, saved, cursor, pending,
                   filter_stats>>

NextDate == DateFilter \/ SourceDateFilter

SpecDate == InitDate /\ [][NextDate]_vars

-----------------------------------------------------------------------------
(* Classification on its own: Extractor.__classifying_detail and
   Extractor.__classifying_detail_tiktok over items with an image collection
   of stills and slides *)

MaxSlides == 3

\* an image entry: a still with its URL candidates, a still without any, a
\* slide that embeds a video with two variants, a slide that embeds a video
\* object without variants
SlideKinds == {"still", "no_urls", "video", "bare"}

\* the URL candidates of the still at position k
StillUrls(k) ==
    <<PyStr("s" \o ToString(k) \o "a"), PyStr("s" \o ToString(k) \o "b")>>

\* a video payload with the variants of the kind
RawVideo(kind, t) ==
    PyDict(Keys(t).list :>
        PyList([j \in 1..Len(VariantsOf(kind)) |->
                    RawVariant(VariantsOf(kind)[j], j, Keys(t))]))

\* the image entry of the kind at position k
RawSlide(kind, k, t) ==
    PyDict((CASE kind = "no_urls" -> NoFields
              [] t -> [imageURL |-> PyDict([urlList |-> PyList(StillUrls(k))])]
              [] OTHER -> [url_list |-> PyList(StillUrls(k))])
           @@ (CASE kind = "video" -> [video |-> RawVideo("video", t)]
                 [] kind = "bare" -> [video |-> PyDict(NoFields)]
                 [] OTHER -> NoFields))

\* the items whose image collection is slides; an item may also have no
\* image collection at all
RawPosts(slides, t) ==
    LET images == PyList([k \in 1..Len(slides) |-> RawSlide(slides[k], k, t)])
        video == [video |-> RawVideo("video", t)]
    IN  {PyDict(video @@ (IF t THEN [imagePost |-> PyDict([images |-> images])]
                          ELSE [images |-> images]))}
            \cup (IF slides = <<>> THEN {PyDict(video)} ELSE {})

InitClassify ==
    /\ pc = "raw"
    /\ tiktok \in BOOLEAN
    /\ works \in UNION {[1..n -> SlideKinds] : n \in 0..MaxSlides}
    /\ tree \in RawPosts(works, tiktok)
    /\ mode = ""
    /\ rule = "all"
    /\ earliest = 0
    /\ latest = 0
    /\ clock = 0
    /\ kwargs = NoKwargs
    /\ AccountIdle
    /\ all_data = <<>>
    /\ records = <<>>
    /\ saved = <<>>
    /\ cursor = 0
    /\ pending = <<>>
    /\ filter_stats = NoStats
    /\ chain = ""
    /\ dflt = None
    /\ variants = <<>>
    /\ result = None
    /\ errors = 0

\* Extractor.__classifying_detail(item, data)
ClassifyingDetail ==
    /\ pc = "tree"
    /\ ~tiktok
    /\ result' = classifying_detail(tree)
    /\ errors' = errors + log_errors_media(tree, safe_extract(tree, "images", PyStr("")))
    /\ pc' = "classified"
    /\ UNCHANGED <<tree, resolveVars, tiktok, variants, pipelineVars>>

\* Extractor.__classifying_detail_tiktok(item, data)
ClassifyingDetailTikTok ==
    /\ pc = "tree"
    /\ tiktok
    /\ result' = classifying_detail_tiktok(tree)
    /\ errors' = errors + log_errors_tiktok(tree)
    /\ pc' = "classified"
    /\ UNCHANGED <<tree, resolveVars, tiktok, variants, pipelineVars>>

NextClassify == Convert \/ ClassifyingDetail \/ ClassifyingDetailTikTok

SpecClassify == InitClassify /\ [][NextClassify]_vars

-----------------------------------------------------------------------------
(* Properties of the runs *)

HasId(item) == Truthy(get(item, "id"))

\* the column of a field in a persisted row
Column(key) == CHOOSE k \in 1..Len(FieldKeys) : FieldKeys[k] = key

\* the id given to the work at position k of the payload list
IdOf(k) == PyStr("w" \o ToString(k))

Returned == pc = "done" /\ ~IsRaise(result)

\* C1: in either mode and on either platform every item of the list that
\* run returns has a non-empty id, and an extracted item whose id is empty
\* or missing is dropped before the items are logged, filtered and
\* persisted: no log record, no item that reaches a filter, no persisted
\* row and no returned item is without id.
ItemsWithoutIdAreDropped ==
    /\ \A k \in 1..Len(records) : Truthy(records[k][2])
    /\ \A k \in 1..Len(saved) : Truthy(saved[k][Column("id")])
    /\ pc \in {"log", "date", "hook", "record", "return"} =>
            \A k \in 1..Len(all_data) : HasId(all_data[k])
    /\ Returned =>
            /\ \A k \in 1..Len(Val(result)) : HasId(Val(result)[k])
            /\ Len(Val(result)) <=
                    Cardinality({k \in 1..Len(works) :
                                    works[k] \notin {"no_id", "empty_id"}})

\* a run that drops an item without id and persists and returns another
ItemWithoutIdDropped ==
    /\ Returned
    /\ \E k \in 1..Len(works) : works[k] \in {"no_id", "empty_id"}
    /\ Len(Val(result)) = 1
    /\ Len(saved) = 1

\* C9: a run in a recognized mode ends with a list, whatever the items of
\* the payload list are; no item makes the run raise.
MalformedItemNeverAborts ==
    (pc = "done" /\ mode \in {"batch", "detail"}) => ~IsRaise(result)

\* C10: batch mode logs after the items without id are dropped, applies the
\* date filter before the custom filter hook and the hook before the first
\* recorder.save; no item outside the date range and no item the hook
\* excludes is persisted, and the rows persisted are, in order, the rows of
\* the returned list.
BatchPersistsWhatItReturns ==
    mode = "batch" =>
        /\ pc \in {"call", "extract", "clean"} => records = <<>>
        /\ pc \in {"call", "extract", "clean", "log", "date"} =>
                filter_stats = NoStats
        /\ pc \in {"call", "extract", "clean", "log", "date", "hook"} =>
                saved = <<>>
        /\ \A r \in 1..Len(saved) :
                /\ rule = "videos" => saved[r][Column("type")] = TypeVideo
                /\ \A k \in 1..Len(works) :
                        works[k] = "old" => saved[r][Column("id")] # IdOf(k)
        /\ Returned =>
                saved = [k \in 1..Len(Val(result)) |-> extract_values(Val(result)[k])]

\* a batch run that persists an item and leaves out another, which is
\* outside the date range or excluded by the hook
BatchLeavesOutFilteredItem ==
    /\ mode = "batch"
    /\ Returned
    /\ Len(saved) = 1
    /\ \E k \in 1..Len(works) :
            \/ works[k] = "old"
            \/ works[k] \in {"images", "live"} /\ rule = "videos"


\* the ids of the persisted rows and of the returned items, in order
SavedIds == [r \in 1..Len(saved) |-> saved[r][Column("id")]]

ReturnedIds == [k \in 1..Len(Val(result)) |-> get(Val(result)[k], "id")]

InSeq(x, q) == \E i \in 1..Len(q) : q[i] = x

\* the ids of the works of the payload list that have one, in list order
WorkIds ==
    SelectSeq([k \in 1..Len(works) |->
                    IF works[k] \in {"no_id", "empty_id"} THEN PyStr("") ELSE IdOf(k)],
              LAMBDA id : Truthy(id))

\* the work at position k is one the custom filter excludes
Excluded(k) == rule = "videos" /\ works[k] \in {"images", "live"}

\* the work at position k survives the cleaning and the batch date filter
SurvivesBatchFilters(k) == works[k] \notin {"no_id", "empty_id", "old"}

\* q is a subsequence of WorkIds without repetition: its ids are those of
\* distinct works, in list order
OnceInInputOrder(q) ==
    \A i, j \in 1..Len(q) :
        i < j => \E k, l \in 1..Len(works) : k < l /\ q[i] = IdOf(k) /\ q[j] = IdOf(l)

\* C11 as stated: batch mode persists every item that survives the cleaning
\* and the date filter before the custom filter is applied, so that an item
\* the hook excludes is persisted all the same.
BatchPersistsBeforeHook ==
    mode = "batch" =>
        /\ pc = "hook" => Len(saved) = Len(all_data)
        /\ Returned =>
                \A k \in 1..Len(works) :
                    SurvivesBatchFilters(k) => InSeq(IdOf(k), SavedIds)

\* C11, amended: batch mode persists the items that survive the cleaning,
\* the date filter and the custom filter hook, each exactly once and in
\* input order; the hook is applied before the first recorder.save, so an
\* item it excludes is not persisted, and the persisted items are exactly
\* the returned ones.
BatchPersistsSurvivorsOnce ==
    mode = "batch" =>
        /\ OnceInInputOrder(SavedIds)
        /\ \A r \in 1..Len(saved) :
                \A k \in 1..Len(works) : Excluded(k) => SavedIds[r] # IdOf(k)
        /\ Returned =>
                /\ \A k \in 1..Len(works) :
                        (SurvivesBatchFilters(k) /\ ~Excluded(k))
                            <=> InSeq(IdOf(k), SavedIds)
                /\ SavedIds = ReturnedIds

\* a batch run that has persisted two items
BatchPersistsTwoInOrder ==
    /\ mode = "batch"
    /\ Returned
    /\ Len(saved) = 2
    /\ SavedIds = <<IdOf(1), IdOf(2)>>

\* C12: detail mode passes every item that has a non-empty id to
\* recorder.save exactly once, in input order, before the custom filter hook
\* is called; an item the hook excludes is persisted and only missing from
\* the returned list, every returned item is a persisted one, and no date
\* filter is applied (a work outside the date range is persisted and
\* returned).
DetailPersistsBeforeFilter ==
    mode = "detail" =>
        /\ pc \in {"call", "extract", "clean", "log", "record"} =>
                filter_stats = NoStats
        /\ OnceInInputOrder(SavedIds)
        /\ (pc \in {"hook", "return"} \/ Returned) => SavedIds = WorkIds
        /\ Returned =>
                /\ \A k \in 1..Len(Val(result)) :
                        InSeq(extract_values(Val(result)[k]), saved)
                /\ \A k \in 1..Len(works) :
                        InSeq(IdOf(k), ReturnedIds)
                            <=> (InSeq(IdOf(k), WorkIds) /\ ~Excluded(k))

\* a detail run that persists an item the hook excludes from the result
DetailPersistsExcludedItem ==
    /\ mode = "detail"
    /\ Returned
    /\ \E k \in 1..Len(works) : Excluded(k) /\ InSeq(IdOf(k), SavedIds)
    /\ Len(saved) > Len(Val(result))


\* C16: run with a mode name other than "batch" and "detail" raises
\* DownloaderError at once: no item is extracted or logged, recorder.save
\* and the custom filter hook are not called, and the counters keep their
\* values.
UnknownModeFailsImmediately ==
    mode \notin {"batch", "detail"} =>
        /\ pc \in {"call", "done"}
        /\ pc = "done" => result = Raise("DownloaderError")
        /\ all_data = <<>>
        /\ records = <<>>
        /\ saved = <<>>
        /\ cursor = 0
        /\ filter_stats = NoStats
        /\ errors = 0

\* a run in an unknown mode over two payloads has failed
UnknownModeFailed ==
    /\ mode = "comment"
    /\ pc = "done"
    /\ Len(works) = 2
    /\ result = Raise("DownloaderError")


\* C13: within a run recorder.save is called once for each surviving item,
\* in extraction order, with the values of the item in the order of the
\* recorder's field keys, and a call is made only when the call before it
\* has completed: at most one call is in flight, and the rows written and
\* in flight are the rows of the first items of the list, in order.
SavesAreSequential ==
    /\ Len(pending) <= 1
    /\ OnceInInputOrder(SavedIds)
    /\ pc = "record" =>
            /\ Len(saved) + Len(pending) = cursor
            /\ \A r \in 1..cursor :
                    \A j \in 1..Len(FieldKeys) :
                        (saved \o pending)[r][j] = get(all_data[r], FieldKeys[j])
    /\ pc # "record" => pending = <<>>

\* the second save of a run is in flight after the first has completed
SecondSaveInFlight ==
    /\ pc = "record"
    /\ Len(saved) = 1
    /\ Len(pending) = 1
    /\ cursor = 2


-----------------------------------------------------------------------------
(* Properties of the date filters *)

\* the input items and the kept ones agree: kept is the subsequence of the
\* input at the positions that satisfy Keep
IsSelection(kept, input, Keep(_)) ==
    kept = SelectSeq(input, LAMBDA i : \E k \in 1..Len(input) : input[k] = i /\ Keep(k))

\* the day of the creation time of an item, read from field
DayOf(item, field) == Val(get(item, field)) \div SecondsPerDay

\* C14: the batch date filter keeps an item exactly when
\* earliest <= date(create_timestamp) <= latest: an item created in the
\* first second of the earliest date or in the last second of the latest
\* date is kept, one created a second before or after the range is dropped,
\* and the kept items are in the order of the input.
DateFilterKeepsInclusiveRange ==
    pc = "hook" =>
        /\ IsSelection(all_data, Val(tree),
                LAMBDA k : /\ earliest <= DayOf(Val(tree)[k], "create_timestamp")
                           /\ DayOf(Val(tree)[k], "create_timestamp") <= latest)
        /\ IsSelection(all_data, Val(tree),
                LAMBDA k : works[k] \in {"first", "inside", "last"})

\* the items on the two ends of the range are kept, the one after it is not
DateFilterKeepsBothEnds ==
    /\ pc = "hook"
    /\ works = <<"first", "after", "last">>
    /\ Len(all_data) = 2
    /\ earliest < latest

\* the native timestamp field of the platform
NativeKey == IF tiktok THEN "createTime" ELSE "create_time"

\* C15: the raw-source date filter reads create_time on Source-A and
\* createTime on Source-B and keeps a payload that has the field exactly
\* when earliest <= date <= latest; a payload without that field (or with 0
\* or null in it) is in the result for every range, and the result is in
\* the order of the input.
SourceFilterKeepsUndated ==
    pc = "filtered" =>
        /\ ~IsRaise(result)
        /\ IsSelection(Val(result), Val(tree),
                LAMBDA k :
                    \/ NativeKey \notin DOMAIN Val(Val(tree)[k])
                    \/ ~Truthy(get(Val(tree)[k], NativeKey))
                    \/ /\ earliest <= DayOf(Val(tree)[k], NativeKey)
                       /\ DayOf(Val(tree)[k], NativeKey) <= latest)
        /\ IsSelection(Val(result), Val(tree),
                LAMBDA k : works[k] \notin {"before", "after"})

\* a payload without the field is kept next to one that is dropped
SourceFilterKeptUndated ==
    /\ pc = "filtered"
    /\ works = <<"none", "after", "last">>
    /\ Len(Val(result)) = 2


-----------------------------------------------------------------------------
(* Properties of the classification *)

Classified == pc = "classified" /\ ~IsRaise(result)

EmbedsVideo(k) == works[k] \in {"video", "bare"}

\* the last URL of the still at position k, "" when it has no URL list
StillUrl(k) == IF works[k] = "no_urls" THEN PyStr("") ELSE Last(StillUrls(k))

\* the URL of the best variant of the video a slide embeds: the last URL of
\* the second, larger variant; "" when the video has no variants
SlideVideoUrl(k) == IF works[k] = "bare" THEN PyStr("") ELSE Last(UrlList(2))

\* type is type_ and downloads has the entry Entry(k) for every image k
HasMedia(type_, Entry(_)) ==
    /\ get(result, "type") = type_
    /\ get(result, "downloads") = PyList([k \in 1..Len(works) |-> Entry(k)])

\* C20 as stated: on either platform an item with a non-empty image
\* collection is a live-photo set when an image entry embeds a video, with
\* that video's best-variant URL as the entry of such a slide, and an image
\* set with the last URL of every still otherwise; an item without image
\* collection is a video.
ClassifiesLiveOnEitherPlatform ==
    Classified =>
        IF works = <<>> THEN get(result, "type") = TypeVideo
        ELSE IF \E k \in 1..Len(works) : EmbedsVideo(k)
        THEN HasMedia(TypeLive,
                LAMBDA k : IF EmbedsVideo(k) THEN SlideVideoUrl(k) ELSE StillUrl(k))
        ELSE HasMedia(TypeImage, StillUrl)

\* C20, amended: the Source-A adapter classifies as stated; the Source-B
\* adapter does not inspect the image entries: an item with a non-empty
\* image collection is an image set whatever its entries embed, with the
\* URL at the configured index (the last) of every still.  An item without
\* image collection, or with an empty one, is a video on both platforms.
ClassifiesByImageCollection ==
    Classified =>
        IF works = <<>> THEN get(result, "type") = TypeVideo
        ELSE IF ~tiktok /\ \E k \in 1..Len(works) : EmbedsVideo(k)
        THEN HasMedia(TypeLive,
                LAMBDA k : IF EmbedsVideo(k) THEN SlideVideoUrl(k) ELSE StillUrl(k))
        ELSE HasMedia(TypeImage, StillUrl)

\* a Source-A item whose second image embeds a video is a live-photo set
LivePhotoSetClassified ==
    /\ Classified
    /\ ~tiktok
    /\ works = <<"still", "video", "no_urls">>
    /\ get(result, "type") = TypeLive


-----------------------------------------------------------------------------
(* Properties of the nickname and mark *)

\* the sanitized nickname of the author of the work at position k
OwnName(k) ==
    CASE works[k] = "unclean" -> PyStr("bo")
      [] works[k] = "symbols" -> PyStr("invalid nickname")
      [] works[k] \in {"deleted", "anonymous"} -> PyStr("deleted account")
      [] OTHER -> PyStr("ann")

\* the returned item k has the nickname and the mark
HasNames(k, nickname, mark_) ==
    /\ get(Val(result)[k], "nickname") = nickname
    /\ get(Val(result)[k], "mark") = mark_

\* C19: in a batch run with same set, every returned item has the name
\* argument as nickname and the mark argument as mark (the name when the
\* mark is empty), whatever nickname its own author has; in a detail run
\* the nickname and the mark of a returned item are both the sanitized
\* nickname of its own author.
SharedAuthorNamesEveryItem ==
    Returned =>
        /\ Len(Val(result)) = Len(works)
        /\ (mode = "batch" /\ kwargs.same) =>
                \A k \in 1..Len(works) :
                    HasNames(k, PyStr(kwargs.name),
                             PyStr(IF kwargs.mark = "" THEN kwargs.name
                                   ELSE kwargs.mark))
        /\ mode = "detail" =>
                \A k \in 1..Len(works) : HasNames(k, OwnName(k), OwnName(k))

\* a batch with same set and an empty mark returned two works of authors
\* with other nicknames under the name of the batch
SharedAuthorNamedTwoWorks ==
    /\ Returned
    /\ mode = "batch"
    /\ kwargs = [name |-> "fan", mark |-> "", same |-> TRUE]
    /\ works = <<"unclean", "video">>
    /\ \A k \in 1..2 : HasNames(k, PyStr("fan"), PyStr("fan"))

-----------------------------------------------------------------------------
(* Properties of the processing of an account *)

\* preprocessing_data has been called
Preprocessed == pc \notin {"account", "preprocess"} /\ works # <<>>

\* the sec_uid of the profile, None when it has none
ProfileSecUid ==
    IF tiktok THEN get(get(info, "user"), "secUid") ELSE get(info, "sec_uid")

\* the account has a profile whose sec_uid is not the expected one
Mismatch == Tag(info) = "dict" /\ ProfileSecUid # PyStr(sec_user_id)

NoTriple == PyTuple(<<PyStr(""), PyStr(""), PyStr("")>>)

\* C17: when the profile of the account has a sec_uid other than the
\* expected one, or none, preprocessing_data returns ("", "", ""), and the
\* caller opens no recorder, persists nothing, updates no cache, starts no
\* download and returns False, so that the account is counted as failed.
IdentityMismatchAborts ==
    (Mismatch /\ Preprocessed) =>
        /\ triple = NoTriple
        /\ pc \in {"handled", "counted"}
        /\ recorder = "none"
        /\ pending = <<>> /\ saved = <<>>
        /\ cache = <<>>
        /\ downloaded = None
        /\ account_result = False
        /\ success = 0
        /\ failed = IF pc = "counted" THEN 1 ELSE 0

\* an account whose profile has no sec_uid was counted as failed
ProfileWithoutSecUidFailed ==
    /\ pc = "counted"
    /\ works # <<>>
    /\ Tag(info) = "dict"
    /\ ProfileSecUid = None
    /\ triple = NoTriple
    /\ failed = 1

\* the works are what preprocessing_data is given, for the tab of posts
ListShaped == ~Truthy(info) /\ tab = "post"

Matches(k) == Account(works[k])[1] = sec_user_id

\* the id and the name of the account of the work at position k: the uid of
\* its author and the sanitized nickname, the uid for an author without
\* nickname
PostId(k) == PyStr(Account(works[k])[2])

PostName(k) ==
    CASE works[k] = "mine" -> PyStr("ann")
      [] works[k] = "also_mine" -> PyStr("bo")
      [] works[k] = "other" -> PyStr("cat")
      [] works[k] = "nameless" -> PostId(k)

\* the triple of the work at position k
TripleOfPost(k) ==
    PyTuple(<<PostId(k), PostName(k), IF mark = "" THEN PostName(k) ELSE PyStr(mark)>>)

\* C18: preprocessing_data on a list takes the first element, in list
\* order, whose mapped sec_uid field equals the requested id and returns
\* the triple of that element whatever later elements match; when no
\* element matches it raises DownloaderError, which reaches the caller: no
\* triple is returned, no recorder is opened and nothing is counted.
FirstMatchingItemIsUsed ==
    (ListShaped /\ Preprocessed) =>
        IF \E k \in 1..Len(works) : Matches(k)
        THEN \E k \in 1..Len(works) :
                /\ Matches(k)
                /\ \A j \in 1..(k - 1) : ~Matches(j)
                /\ triple = TripleOfPost(k)
        ELSE /\ triple = Raise("DownloaderError")
             /\ account_result = triple
             /\ pc = "raised"
             /\ recorder = "none"
             /\ success = 0 /\ failed = 0

\* of two works of the account X the first one gave the triple
FirstOfTwoMatchesUsed ==
    /\ ListShaped
    /\ pc = "counted"
    /\ sec_user_id = "X"
    /\ works = <<"also_mine", "mine">>
    /\ triple = TripleOfPost(1)
    /\ triple # TripleOfPost(2)

-----------------------------------------------------------------------------
(* Properties of the fields of an item *)

\* the position in the payload list of the work a returned item is of
WorkOf(item) == CHOOSE k \in 1..Len(works) : IdOf(k) = get(item, "id")

\* the value of the counter of a slot in the payload of the work at
\* position k, None when the payload has no such counter
SourceCounter(k, slot) ==
    CASE works[k] \notin DescribedKinds -> None
      [] slot = "digg_count" -> PyInt(11)
      [] slot = "comment_count" -> PyInt(12)
      [] slot = "collect_count" -> PyInt(13)
      [] slot = "share_count" -> PyInt(IF works[k] = "zero_share" THEN 0 ELSE 14)
      [] slot = "play_count" -> IF works[k] = "no_play" THEN None ELSE PyInt(15)

Slots == {"digg_count", "comment_count", "collect_count", "share_count", "play_count"}

HandleOf(k) ==
    IF works[k] \in DescribedKinds \ {"no_handle"} THEN "ann" ELSE ""

\* the link of an item of the platform, type, id and handle
LinkOf(t, type_, id, handle) ==
    CASE ~t /\ type_ = TypeVideo -> "https://www.douyin.com/video/" \o id
      [] ~t /\ type_ \in {TypeImage, TypeLive} -> "https://www.douyin.com/note/" \o id
      [] t /\ type_ = TypeVideo ->
            "https://www.tiktok.com/@" \o handle \o "/video/" \o id
      [] t /\ type_ = TypeImage ->
            "https://www.tiktok.com/@" \o handle \o "/photo/" \o id
      [] OTHER -> ""

\* C22: the share_url of a returned item is given by the platform, the
\* type, the id and the handle alone: douyin.com/video/{id} and
\* douyin.com/note/{id} on Source-A, tiktok.com/@{handle}/video/{id} and
\* tiktok.com/@{handle}/photo/{id} on Source-B, "" otherwise; a Source-B
\* item never has a douyin.com link.
ShareUrlFollowsPlatform ==
    Returned =>
        \A i \in 1..Len(Val(result)) :
            get(Val(result)[i], "share_url") =
                PyStr(LinkOf(tiktok, get(Val(result)[i], "type"),
                             Val(get(Val(result)[i], "id")),
                             HandleOf(WorkOf(Val(result)[i]))))

\* C23: desc is never empty in an item that is logged, filtered, persisted
\* or returned, on either platform: an item whose cleaned description is
\* empty has its id as desc.
DescIsNeverEmpty ==
    /\ pc \in {"log", "date", "hook", "record", "return"} =>
            \A i \in 1..Len(all_data) : Truthy(get(all_data[i], "desc"))
    /\ Returned =>
            \A i \in 1..Len(Val(result)) :
                /\ Truthy(get(Val(result)[i], "desc"))
                /\ works[WorkOf(Val(result)[i])] \in {"blank_desc", "no_time"} =>
                        get(Val(result)[i], "desc") = get(Val(result)[i], "id")

\* a work whose description holds nothing that is kept was returned with
\* its id as desc
BlankDescReturnedAsId ==
    /\ Returned
    /\ works = <<"blank_desc">>
    /\ Len(Val(result)) = 1
    /\ get(Val(result)[1], "desc") = IdOf(1)

\* C24: the create_time of a returned item is the rendering of its
\* create_timestamp and of nothing else: the timestamp is a number and
\* create_time renders it, whatever the clock shows.
CreateTimeRendersTimestamp ==
    Returned =>
        \A i \in 1..Len(Val(result)) :
            /\ Tag(get(Val(result)[i], "create_timestamp")) = "int"
            /\ get(Val(result)[i], "create_time") =
                    PyStr(strftime(Val(get(Val(result)[i], "create_timestamp"))))

\* the work at position k has an id and no timestamp, or 0 for it
Undated(k) == works[k] \in {"no_time", "zero_time"}

\* C27: a batch with a work that has an id and a zero or missing timestamp
\* does not fail: that work is dropped by the date filter and the other
\* works in the range are returned.
BatchDropsUndatedItem ==
    (mode = "batch" /\ pc = "done") =>
        /\ ~IsRaise(result)
        /\ \A k \in 1..Len(works) :
                InSeq(IdOf(k), ReturnedIds)
                    <=> (works[k] # "empty_id" /\ ~Undated(k))

-----------------------------------------------------------------------------
(* The counters of src/custom/function.py over the runs of one process: a
   run or a call of source_date_filter follows another, and
   reset_filter_stats is called between them or not.  The log records and
   the rows of the model are those of the run under way. *)

\* the calls of the hook a process makes before the next run is not modelled
MaxTotal == 3

CountedKinds == {"video", "images", "live"}

\* reset_filter_stats() of src/custom/function.py
reset_filter_stats(stats) ==
    [total |-> 0, filtered |-> 0, image |-> 0, live |-> 0] @@ stats

InitCounters ==
    /\ pc \in {"call", "source"}
    /\ tiktok \in BOOLEAN
    /\ mode \in {"batch", "detail"}
    /\ rule \in {"all", "videos"}
    /\ works \in UNION {[1..n -> CountedKinds] : n \in 0..MaxItems}
    /\ tree = PyList([k \in 1..Len(works) |-> RawWork(works[k], k, tiktok)])
    /\ earliest = Range.earliest
    /\ latest = Range.latest
    /\ clock = Val(Now)
    /\ kwargs = IF mode = "batch" THEN SameAuthor ELSE NoKwargs
    /\ AccountIdle
    /\ all_data = <<>>
    /\ records = <<>>
    /\ saved = <<>>
    /\ cursor = 0
    /\ pending = <<>>
    /\ filter_stats = NoStats
    /\ chain = ""
    /\ dflt = None
    /\ variants = <<>>
    /\ result = None
    /\ errors = 0

\* the next call of the process: Extractor.run or
\* Extractor.source_date_filter over other works
Again ==
    /\ pc \in {"done", "filtered"}
    /\ pending = <<>>
    /\ filter_stats.total < MaxTotal
    /\ pc' \in {"call", "source"}
    /\ works' \in UNION {[1..n -> CountedKinds] : n \in 0..MaxItems}
    /\ tree' = PyList([k \in 1..Len(works') |-> RawWork(works'[k], k, tiktok)])
    /\ UNCHANGED <<mode, kwargs>>
    /\ all_data' = <<>>
    /\ records' = <<>>
    /\ saved' = <<>>
    /\ cursor' = 0
    /\ result' = None
    /\ errors' = 0
    /\ UNCHANGED <<tiktok, rule, earliest, latest, clock, resolveVars,
                   qualityVars, accountVars, pending, filter_stats>>

\* reset_filter_stats() is called between two calls
ResetFilterStats ==
    /\ pc \in {"done", "filtered"}
    /\ filter_stats' = reset_filter_stats(filter_stats)
    /\ UNCHANGED <<pc, callVars, result, errors, all_data, records, saved,
                   cursor, pending>>

NextCounters == Next \/ SourceDateFilter \/ Again \/ ResetFilterStats

SpecCounters == InitCounters /\ [][NextCounters]_vars

CounterNames == {"total", "filtered", "image", "live"}

\* C25: reset_filter_stats sets the four counters to 0; in every other step
\* of a sequence of runs, hook calls and calls of source_date_filter no
\* counter decreases, total grows by one for each call of the hook (the hook
\* is called once for every item that reaches it) and by nothing else.
CountersAccumulateUntilReset ==
    [][/\ ResetFilterStats => \A c \in CounterNames : filter_stats'[c] = 0
       /\ ~ResetFilterStats =>
            /\ \A c \in CounterNames : filter_stats'[c] >= filter_stats[c]
            /\ filter_stats'.total = filter_stats.total +
                    (IF pc = "hook" /\ pc' # "hook" THEN Len(all_data) ELSE 0)]_vars

\* a run has ended with more hook calls counted than it has works: the
\* calls of the run before are still counted
CallsOfTwoRunsCounted ==
    /\ pc = "done"
    /\ ~IsRaise(result)
    /\ Len(works) > 0
    /\ filter_stats.total > Len(works)
    /\ filter_stats.filtered > 0

-----------------------------------------------------------------------------
(* The store of the failed links on its own: FailedLogger is entered, links
   are logged, it is left, and entered again *)

MaxRows == 3

\* what no step of FailedLogger assigns
loggerFrame ==
    <<tree, chain, dflt, result, tiktok, variants, errors, works, mode, rule,
      earliest, latest, clock, kwargs, all_data, records, saved, cursor,
      pending, filter_stats, api, info, sec_user_id, tab, mark, triple,
      recorder, cache, downloaded, account_result, success, failed, source,
      old_mark, link, link_index, accounts>>

InitLogger ==
    /\ pc = "closed"
    /\ tiktok \in BOOLEAN
    /\ PipelineIdle
    /\ tree = None
    /\ chain = ""
    /\ dflt = None
    /\ variants = <<>>
    /\ result = None
    /\ errors = 0

\* async with FailedLogger(...): FailedLogger.__aenter__
Enter ==
    /\ pc = "closed"
    /\ book' = aenter(store)
    /\ pc' = "opened"
    /\ UNCHANGED <<loggerFrame, store>>

\* FailedLogger.log_failed_link(url, reason, link_type)
LogFailedLink ==
    /\ pc = "opened"
    /\ Len(book) <= MaxRows
    /\ \E now \in {Val(Now), Val(Later)}, url \in {"X", "Y"},
          reason \in {ReasonId, ReasonData} :
            book' = log_failed_link(book, now, url, reason, Category(tiktok))
    /\ UNCHANGED <<pc, loggerFrame, store>>

\* FailedLogger.__aexit__: the book is saved
Exit ==
    /\ pc = "opened"
    /\ store' = book
    /\ pc' = "closed"
    /\ UNCHANGED <<loggerFrame, book>>

NextLogger == Enter \/ LogFailedLink \/ Exit

SpecLogger == InitLogger /\ [][NextLogger]_vars

-----------------------------------------------------------------------------
(* The loop over the accounts: __account_detail_batch, which takes the
   sec_user_id of every link first, and __account_detail_handle, whose links
   are taken already.  No caller of the loops passes the api or the source
   argument. *)

MaxAccounts == 2

\* the works of an account: none, one in the range of dates, one from before
\* it, one of another account
LoopWorks == {<<>>, <<"mine">>, <<"old">>, <<"other">>}

\* check_sec_user_id: the first sec_user_id of the link, "" without one
check_sec_user_id(url) == IF url = "bad" THEN "" ELSE url

InitLoop ==
    /\ pc = "start"
    /\ tiktok \in BOOLEAN
    /\ accounts \in 1..MaxAccounts
    /\ store \in {None, <<Headers, <<strftime(Val(Now)), "Y", ReasonData,
                                     Category(tiktok)>>>>}
    /\ book = None
    /\ link_index = 0
    /\ link = ""
    /\ api = FALSE
    /\ source = FALSE
    /\ info = None
    /\ sec_user_id = ""
    /\ tab = ""
    /\ mark = ""
    /\ works = <<>>
    /\ tree = PyList(<<>>)
    /\ mode = ""
    /\ rule = "all"
    /\ earliest = Range.earliest
    /\ latest = Range.latest
    /\ clock = Val(Now)
    /\ kwargs = NoKwargs
    /\ triple = None
    /\ old_mark = Unbound
    /\ recorder = "none"
    /\ cache = <<>>
    /\ downloaded = None
    /\ account_result = None
    /\ success = 0
    /\ failed = 0
    /\ all_data = <<>>
    /\ records = <<>>
    /\ saved = <<>>
    /\ cursor = 0
    /\ pending = <<>>
    /\ filter_stats = NoStats
    /\ chain = ""
    /\ dflt = None
    /\ variants = <<>>
    /\ result = None
    /\ errors = 0

\* what the loop leaves alone between two accounts
loopFrame ==
    <<tiktok, api, source, mark, rule, earliest, latest, clock, resolveVars,
      qualityVars, cache, accounts, store, pending, filter_stats>>

\* count = SimpleNamespace(time=time(), success=0, failed=0) and
\* async with FailedLogger(...) as failed_logger
AccountDetailBatch ==
    /\ pc = "start"
    /\ book' = aenter(store)
    /\ success' = 0
    /\ failed' = 0
    /\ pc' = "loop"
    /\ UNCHANGED <<loopFrame, extractorVars, info, sec_user_id, tab, link,
                   link_index, mode, kwargs, result, errors, triple, old_mark,
                   recorder, downloaded, account_result>>

\* the next link of the loop: a link without sec_user_id is logged and
\* counted as failed; otherwise deal_account_detail is called, which fetches
\* the profile and the works of the account
CheckSecUserId ==
    /\ pc \in {"loop", "counted"}
    /\ link_index < accounts
    /\ link_index' = link_index + 1
    /\ link' \in {"bad", "X"}
    /\ sec_user_id' = check_sec_user_id(link')
    /\ IF sec_user_id' = ""
       THEN /\ book' = log_failed_link(book, clock, link', ReasonId,
                                       Category(tiktok))
            /\ failed' = failed + 1
            /\ pc' = "counted"
            /\ info' = None
            /\ tab' = ""
            /\ works' = <<>>
       ELSE /\ pc' = "account"
            /\ info' \in {Profile(kind, tiktok) : kind \in {"X", "none"}}
            /\ tab' \in {"post", "favorite"}
            /\ works' \in LoopWorks
            /\ UNCHANGED <<book, failed>>
    /\ tree' = PyList([k \in 1..Len(works') |-> RawWork(works'[k], k, tiktok)])
    /\ mode' = ""
    /\ kwargs' = NoKwargs
    /\ triple' = None
    /\ old_mark' = Unbound
    /\ recorder' = "none"
    /\ downloaded' = None
    /\ account_result' = None
    /\ all_data' = <<>>
    /\ records' = <<>>
    /\ saved' = <<>>
    /\ cursor' = 0
    /\ result' = None
    /\ errors' = 0
    /\ UNCHANGED <<loopFrame, success>>

\* the loop is left: FailedLogger.__aexit__ saves the book, and the counts
\* are summarized
SummarizeResults ==
    /\ pc = "counted"
    /\ link_index = accounts
    /\ store' = book
    /\ pc' = "summarized"
    /\ UNCHANGED <<loggerFrame, book>>

\* an exception leaves the loop: FailedLogger.__aexit__ saves the book
LoopRaised ==
    /\ pc = "raised"
    /\ store' = book
    /\ pc' = "aborted"
    /\ UNCHANGED <<loggerFrame, book>>

NextLoop ==
    \/ AccountDetailBatch
    \/ CheckSecUserId
    \/ NextAccount
    \/ SummarizeResults
    \/ LoopRaised

SpecLoop == InitLoop /\ [][NextLoop]_vars

-----------------------------------------------------------------------------
(* Properties of the calls of deal_account_detail *)

\* deal_account_detail gave the account up before its data was looked at
GivenUp ==
    \/ ~api /\ ~Truthy(info) /\ tab \in {"favorite", "collection"}
    \/ \A k \in 1..Len(Val(tree)) : ~Truthy(Val(tree)[k])

\* C29: with the source argument the payloads of the account are passed
\* through source_date_filter and returned, and nothing else is done: no
\* preprocessing of the identity, no read of the cache, no recorder, no call
\* of recorder.save, no call of the hook and no change of its counters, no
\* update of the cache and no download.
SourceOnlyFiltersByDate ==
    (source /\ pc # "account") =>
        /\ pc \in {"handled", "counted", "raised"}
        /\ account_result =
                IF GivenUp THEN None
                ELSE source_date_filter(Val(tree), earliest, latest, tiktok)
        /\ triple = None
        /\ old_mark = Unbound
        /\ recorder = "none"
        /\ all_data = <<>> /\ records = <<>>
        /\ cursor = 0 /\ pending = <<>> /\ saved = <<>>
        /\ filter_stats = NoStats
        /\ cache = <<>>
        /\ downloaded = None

\* the payloads of an account with a work in the range of dates and one
\* from before it were filtered and the one in the range returned
SourceReturnedWorkInRange ==
    /\ source
    /\ pc = "counted"
    /\ works = <<"old", "mine">>
    /\ account_result = PyList(<<Val(tree)[2]>>)
    /\ success = 1

\* C30: in _batch_process_detail the cache is read before the recorder is
\* opened; recorder.save is called, and completes, while the recorder is
\* open; the cache is updated after the recorder is released and before the
\* download is started, which is after it too; for an api caller, and when
\* extractor.run raises, the cache is not updated and no download started.
SideEffectsInOrder ==
    /\ [](/\ recorder # "none" => old_mark # Unbound
          /\ pending # <<>> => recorder = "open"
          /\ cache # <<>> => recorder = "closed" /\ cache = <<triple>>
          /\ downloaded # None => recorder = "closed" /\ cache = <<triple>>
          /\ (api \/ pc = "raised") => cache = <<>> /\ downloaded = None)
    /\ [][/\ (saved' # saved \/ pending' # pending) =>
                recorder = "open" /\ recorder' = "open"
          /\ old_mark' # old_mark => recorder = "none" /\ recorder' = "none"
          /\ cache' # cache =>
                recorder = "closed" /\ downloaded = None /\ downloaded' = None
          /\ downloaded' # downloaded =>
                recorder = "closed" /\ cache = <<triple>> /\ cache' = cache]_vars

\* the works of an account were saved, the cache updated and the download
\* started
SavedThenCachedThenDownloaded ==
    /\ pc = "counted"
    /\ ~api /\ ~source
    /\ recorder = "closed"
    /\ Len(saved) = 2
    /\ cache = <<triple>>
    /\ downloaded = result
    /\ Len(Val(result)) = 2

\* extractor.run raised while the recorder was open
RaisedInsideRecorder ==
    pc = "raised" /\ recorder = "closed" /\ IsRaise(result)

-----------------------------------------------------------------------------
(* Properties of the store of the failed links and of the loop over the
   accounts *)

\* the header row is the first row of the sheet and no other row of it
HeaderOnce(sheet) ==
    /\ sheet # <<>>
    /\ sheet[1] = Headers
    /\ \A k \in 2..Len(sheet) : sheet[k] # Headers

\* the rows a call of log_failed_link can write
LoggedRows ==
    {<<strftime(now), url, reason, Category(tiktok)>> :
        now \in {Val(Now), Val(Later)}, url \in {"X", "Y"},
        reason \in {ReasonId, ReasonData}}

\* C26: over the cycles of entering FailedLogger, logging links and leaving
\* it, on one store, the header row is written once and stays the first row:
\* entering on a store that has it adds and rewrites nothing; each call of
\* log_failed_link appends one row (time, url, reason, type) after the rows
\* there are; leaving saves the rows.
HeaderOnceRowsAppended ==
    /\ [](/\ store # None => HeaderOnce(store)
          /\ book # None => HeaderOnce(book))
    /\ [][/\ (pc = "closed" /\ pc' = "opened") =>
                book' = IF store = None THEN <<Headers>> ELSE store
          /\ (pc = "opened" /\ pc' = "opened" /\ book' # book) =>
                /\ Len(book') = Len(book) + 1
                /\ SubSeq(book', 1, Len(book)) = book
                /\ Last(book') \in LoggedRows
          /\ (pc = "opened" /\ pc' = "closed") => store' = book]_vars

\* a store with a row of an earlier cycle was entered again and a row
\* appended: the header is still its first row
HeaderKeptOverTwoCycles ==
    /\ pc = "opened"
    /\ store # None
    /\ Len(store) = 2
    /\ Len(book) = 3
    /\ SubSeq(book, 1, 2) = store
    /\ HeaderOnce(book)

\* the rows of the store when the loop was entered
RowsBefore == IF store = None THEN 1 ELSE Len(store)

\* why an account is counted as failed: its link has no sec_user_id, its
\* data was not fetched, or preprocessing_data gave no id, name or mark
CouldNot ==
    \/ link = "bad"
    \/ GivenUp
    \/ Tag(triple) = "tuple" /\ ~all(triple)

\* C28: when the loop over the accounts completes, success + failed is the
\* number of accounts, every account is counted once, one row is logged for
\* every account counted as failed and none for an account counted as
\* successful, and an account is counted as failed only when its sec_user_id
\* was not extracted or its data not fetched or not processed: not when its
\* processing gave an empty result.
LoopCountsEveryAccountOnce ==
    /\ [](/\ pc \in {"loop", "counted", "summarized"} =>
                success + failed = link_index
          /\ pc \in {"loop", "account", "handled", "counted"} =>
                Len(book) = RowsBefore + failed
          /\ pc = "summarized" =>
                /\ success + failed = accounts
                /\ store = book)
    /\ [][/\ failed' = failed + 1 =>
                /\ book' = Append(book, <<strftime(clock), link',
                                          IF link' = "bad" THEN ReasonId
                                          ELSE ReasonData,
                                          Category(tiktok)>>)
                /\ success' = success
                /\ CouldNot'
          /\ success' = success + 1 =>
                /\ book' = book
                /\ failed' = failed
                /\ ~CouldNot'
          /\ (pc # "start" /\ book' # book) => failed' = failed + 1
          /\ (pc = "handled" /\ account_result = True) =>
                success' = success + 1]_vars

\* a loop over two accounts was completed: the link of one had no
\* sec_user_id, the works of the other were all from before the range of
\* dates, so that its processing gave an empty result
EmptyResultCountedAsSuccess ==
    /\ pc = "summarized"
    /\ accounts = 2
    /\ works = <<"old">>
    /\ result = PyList(<<>>)
    /\ success = 1
    /\ failed = 1
    /\ Len(store) = 2


====
